---- MODULE Spec2Model ----
(***************************************************************************)
(* Filtered, paginated retrieval of award / notice / opportunity records   *)
(* (Supabase range pagination and HigherGov page-number pagination).       *)
(*                                                                         *)
(* One behaviour of the model is one call of one fetch function against a *)
(* backing table: Init picks the function, its arguments and the table,    *)
(* every action is one round trip (one execute() / requests.get) of that   *)
(* function's loop together with the bookkeeping the code does around it,  *)
(* or one step of the environment (another writer, the wall clock).        *)
(*                                                                         *)
(* Optional scalars are sequences of length <= 1: <<>> is None / SQL NULL, *)
(* <<v>> is the value v. Optional lists are sequences; the code tests them *)
(* by truthiness, so None and [] are the same input, written <<>>.         *)
(***************************************************************************)
EXTENDS Integers, Sequences, FiniteSets, TLC

VARIABLES
    fn,                  \* the fetch function this run executes
    args,                \* its arguments (the Filter Specification, page sizes)
    env,                 \* <<>>, or the environment of the script's main() that calls fn
    pc,                  \* "main" | "validate" | "lookup_include" | "loop" | ... | "done" | "raised"
    store,               \* the backing table: row ids in the store's natural order
    now,                 \* the wall clock (datetime.now / the server's now())
    offset,              \* range-style cursor
    page_number,         \* page-number-style cursor
    all_records,         \* the accumulator (all_awards, all_notices, all_data, ...)
    fpds_codes_include,  \* get_filtered_awards: resolved organization codes
    fpds_codes_exclude,
    ret,                 \* <<>> until the function returns, then <<value>>
    error,               \* <<>> until the function raises, then <<exception>>
    first_result,        \* the result of the first fetch of a repeated fetch
    first_page,          \* get_all_filtered_opportunities: <<the first page's dict>>
    mismatch_records_csv,      \* results_compre_Lawrence.main: unmatched CSV records
    mismatch_records_results,  \* results_compre_Lawrence.main: unmatched results records
    reqlog,              \* history: one entry per request issued
    concurrent,          \* environment: may other writers touch the table?
    nwrites,             \* history: writes by other writers during the run
    writesBefore,        \* history: kinds of write that hit a position before the cursor
    stable               \* history: row ids present in the table during the whole run

vars == <<fn, args, env, pc, store, now, offset, page_number, all_records,
          fpds_codes_include, fpds_codes_exclude, ret, error, first_result,
          first_page, mismatch_records_csv, mismatch_records_results, reqlog,
          concurrent, nwrites, writesBefore, stable>>

\* The run's inputs, the environment's history and the parts of the state most
\* actions leave alone.
inputs == <<fn, args, env>>
history == <<concurrent, nwrites, writesBefore, stable>>
lookups == <<fpds_codes_include, fpds_codes_exclude, first_page>>
mismatches == <<mismatch_records_csv, mismatch_records_results>>

----------------------------------------------------------------------------
(* Bounds of the model.                                                    *)

\* Rows initially in a table.
MaxRows == 5
\* Page size of the range-style loops. The source sets limit = 1000
\* (award_table_filter.py:32, table_filter_Lawrence.py:28, test2.py:10); the
\* loops are uniform in it, so the model runs them with a small page.
limit == 2
\* Writes by other writers during one run.
MaxWrites == 2
\* Last instant of the wall clock.
MaxTime == 2
\* Records in each of the two collections a reconciliation compares.
MaxOps == 2

----------------------------------------------------------------------------
(* Generic helpers.                                                        *)

Range(s) == {s[i] : i \in 1..Len(s)}

Min(a, b) == IF a <= b THEN a ELSE b

\* Python's s[a:b] for 0 <= a, on a TLA+ sequence.
Slice(s, a, b) == SubSeq(s, a + 1, Min(b, Len(s)))

\* ceil(n / d) for d >= 1
CeilDiv(n, d) == (n + d - 1) \div d

RECURSIVE Concat(_)
Concat(ss) == IF ss = <<>> THEN <<>> ELSE Head(ss) \o Concat(Tail(ss))

InsertAt(s, i, x) == SubSeq(s, 1, i - 1) \o <<x>> \o SubSeq(s, i, Len(s))

RemoveAt(s, i) == SubSeq(s, 1, i - 1) \o SubSeq(s, i + 1, Len(s))

NoDup(s) == \A i, j \in 1..Len(s) : i # j => s[i] # s[j]

----------------------------------------------------------------------------
(* The backing tables. Row i of a table is a fixed record; a table's state *)
(* is the sequence of the ids of its rows, in the store's natural order.   *)

\* The i-th value of a column whose values repeat with period Len(s).
Pick(s, i) == s[((i - 1) % Len(s)) + 1]

\* awards: the columns get_filtered_awards filters on.
AwardRow(i) ==
    [ id                                       |-> i,
      piid                                     |-> Pick(<< <<"P1">>, <<"P2">>, <<"P1">>, <<>> >>, i),
      recipient_uei                            |-> Pick(<< <<"U1">>, <<"U2">>, <<>> >>, i),
      parent_recipient_uei                     |-> Pick(<< <<>>, <<"U1">> >>, i),
      period_of_performance_potential_end_date |-> <<10 + (i % 3)>>,
      naics                                    |-> Pick(<< <<"541511">>, <<"541512">>, <<>>, <<"928110">> >>, i),
      product_or_service_code                  |-> Pick(<< <<"D302">>, <<"R425">>, <<>> >>, i),
      type_set_aside                           |-> Pick(<< <<"SBA">>, <<>>, <<"NONE">> >>, i),
      funding_agency_subtier_agency_code       |-> Pick(<< <<"9700">>, <<"4700">>, <<>> >>, i),
      extent_competed_description              |-> Pick(<< <<"FULL AND OPEN">>, <<"NOT COMPETED">>, <<>> >>, i),
      total_obligation                         |-> <<(i % 3) * 100>>,
      description                              |-> Pick(<< {"radar"}, {"cloud", "radar"}, {} >>, i) ]

\* organizations: organization_key -> fpds_code (NULL for some organizations).
Organizations ==
    << [organization_key |-> <<"K1">>, fpds_code |-> <<"9700">>],
       [organization_key |-> <<"K2">>, fpds_code |-> <<"4700">>],
       [organization_key |-> <<"K3">>, fpds_code |-> <<>>] >>

\* notices: the columns get_filtered_notices and get_filtered_opportunities
\* read.
NoticeRow(i) ==
    [ id                             |-> i,
      notice_id                      |-> <<i>>,
      solicitation_id                |-> Pick(<< <<"S1">>, <<"S1">>, <<"S3">>, <<"S3">>, <<>>, <<"S6">> >>, i),
      latest                         |-> <<i % 6 # 0>>,
      solicitation_response_deadline |-> Pick(<< <<3>>, <<1>>, <<3>>, <<2>>, <<>>, <<3>> >>, i),
      naics                          |-> Pick(<< <<"541511">>, <<"541511">>, <<>>, <<"541512">>,
                                                 <<"541511">>, <<"541512">> >>, i),
      type                           |-> Pick(<< <<"o">>, <<"k">>, <<"s">>, <<"o">>, <<"k">>, <<"p">> >>, i),
      psc                            |-> Pick(<< <<"D302">>, <<>>, <<"R425">> >>, i),
      set_aside_id                   |-> Pick(<< <<16>>, <<>>, <<3>> >>, i),
      solicitation_set_aside         |-> Pick(<< <<"SBA">>, <<>>, <<"NONE">> >>, i),
      organization_key               |-> Pick(<< <<300>>, <<400>>, <<>> >>, i),
      organization_level_1_key       |-> Pick(<< <<400>>, <<300>> >>, i),
      organization_level_2_key       |-> Pick(<< <<>>, <<500>>, <<>>, <<>> >>, i),
      organization_level_3_key       |-> <<>>,
      organization_level_4_key       |-> <<>>,
      organization_level_5_key       |-> <<>>,
      organization_level_6_key       |-> <<>>,
      organization_level_7_key       |-> <<>>,
      opportunity_text               |-> Pick(<< {"media"}, {"digital", "media"}, {} >>, i) ]

\* solicitations: solicitation_id -> latest_notice_id (NULL for S6); S3 is
\* marked deleted. Notices 1 and 2 belong to S1, notices 3 and 4 to S3.
Solicitations ==
    << [solicitation_id |-> <<"S1">>, latest_notice_id |-> <<1>>, deleted |-> FALSE],
       [solicitation_id |-> <<"S3">>, latest_notice_id |-> <<4>>, deleted |-> TRUE],
       [solicitation_id |-> <<"S6">>, latest_notice_id |-> <<>>, deleted |-> FALSE] >>

\* naics: naics_code -> naics_id.
NaicsRow(i) ==
    [ naics_code |-> Pick(<< "541511", "541512", "928110" >>, i), naics_id |-> <<10 + i>> ]

\* psc: psc_code -> psc_id (NULL for some codes).
PscRow(i) ==
    [ psc_code |-> Pick(<< "D302", "R425" >>, i), psc_id |-> Pick(<< <<20 + i>>, <<20 + i>>, <<>> >>, i) ]

----------------------------------------------------------------------------
(* PostgREST filters. A filter is a record [op, cols, vals]; a query is the *)
(* sequence of the filters the builder calls added, all ANDed. A comparison *)
(* with NULL is not true (SQL three-valued logic), so every filter but "or" *)
(* rejects a row whose column is NULL.                                      *)

Filter(op, cols, vals) == [op |-> op, cols |-> cols, vals |-> vals]

\* query.in_(col, values)
in_(col, values) == Filter("in", <<col>>, Range(values))
\* query.neq(col, value)
neq(col, value) == Filter("neq", <<col>>, {value})
\* query.eq / gt / gte / lte (col, value)
eq(col, value) == Filter("eq", <<col>>, {value})
gt(col, value) == Filter("gt", <<col>>, {value})
gte(col, value) == Filter("gte", <<col>>, {value})
lte(col, value) == Filter("lte", <<col>>, {value})
\* query.not_.in_(col, values)
not_in(col, values) == Filter("not_in", <<col>>, Range(values))
\* query.or_("c1.in.(v..),c2.in.(v..)") and query.or_("c1.eq.v,c2.eq.v,...")
or_(cols, values) == Filter("or", cols, Range(values))
\* query.text_search(col, q, websearch)
text_search(col, q) == Filter("fts", <<col>>, {q})

\* An exclusion that negates only the first value of the list.
NeqFirst(col, values) == IF values = <<>> THEN <<>> ELSE << neq(col, values[1]) >>

\* for x in values: query = query.neq(col, x)
NeqEach(col, values) == [k \in 1..Len(values) |-> neq(col, values[k])]

Holds(row, f) ==
    LET v == row[f.cols[1]]
        x == CHOOSE y \in f.vals : TRUE
    IN  CASE f.op = "in"  -> v # <<>> /\ v[1] \in f.vals
          [] f.op = "neq" -> v # <<>> /\ v[1] # x
          [] f.op = "eq"  -> v # <<>> /\ v[1] = x
          [] f.op = "gt"  -> v # <<>> /\ v[1] > x
          [] f.op = "gte" -> v # <<>> /\ v[1] >= x
          [] f.op = "lte" -> v # <<>> /\ v[1] <= x
          [] f.op = "or"  -> \E k \in 1..Len(f.cols) :
                                LET w == row[f.cols[k]] IN w # <<>> /\ w[1] \in f.vals
          [] f.op = "not_in" -> v # <<>> /\ v[1] \notin f.vals
          [] f.op = "fts" -> x \in v

\* A query whose filters are alternatives.
SelectedByAny(row, query) == query = <<>> \/ \E k \in 1..Len(query) : Holds(row, query[k])

\* A row is selected when every filter of the query holds of it.
Selected(row, query) == \A k \in 1..Len(query) : Holds(row, query[k])

\* The store's answer to a query without a range: the selected rows of the
\* table, in the table's order.
AwardsResult(table, query) == SelectSeq(table, LAMBDA i : Selected(AwardRow(i), query))

NoticesResult(table, query) == SelectSeq(table, LAMBDA i : Selected(NoticeRow(i), query))

\* query.range(offset, offset + limit - 1): both ends inclusive.
range(result, from, to) == Slice(result, from, to + 1)

----------------------------------------------------------------------------
(* get_filtered_awards: the Filter Specification and its translation.      *)

\* AwardsQuery() with every field left at its default None.
EmptyAwardsQuery ==
    [ INCLUDE_RECIPIENT_UEI     |-> <<>>, EXCLUDE_RECIPIENT_UEI     |-> <<>>,
      POTENTIAL_END_DATE_START  |-> <<>>, POTENTIAL_END_DATE_END    |-> <<>>,
      INCLUDE_NAICS             |-> <<>>, EXCLUDE_NAICS             |-> <<>>,
      INCLUDE_PSC               |-> <<>>, EXCLUDE_PSC               |-> <<>>,
      INCLUDE_SET_ASIDE_IDS     |-> <<>>, EXCLUDE_SET_ASIDE_IDS     |-> <<>>,
      INCLUDE_ORGANIZATION_KEYS |-> <<>>, EXCLUDE_ORGANIZATION_KEYS |-> <<>>,
      INCLUDE_EXTENT_COMPETED   |-> <<>>, EXCLUDE_EXTENT_COMPETED   |-> <<>>,
      AMOUNT_OBLIGATED_MINIMUM  |-> <<>>, AMOUNT_OBLIGATED_MAXIMUM  |-> <<>>,
      KEYWORD_QUERY             |-> <<>> ]

\* A lookup that keeps the organizations without an fpds_code, as an empty code.
ResolveFpdsCodesKeepingNull(keys) ==
    LET hit == SelectSeq(Organizations, LAMBDA org : org.organization_key[1] \in Range(keys))
    IN  [k \in 1..Len(hit) |-> IF hit[k].fpds_code = <<>> THEN "" ELSE hit[k].fpds_code[1]]

\* The organizations lookup of lines 38-43 / 49-54: the truthy fpds_code of
\* every organization whose organization_key is one of keys.
ResolveFpdsCodes(keys) ==
    LET hit == SelectSeq(Organizations, LAMBDA org : org.organization_key[1] \in Range(keys))
        ok  == SelectSeq(hit, LAMBDA org : org.fpds_code # <<>>)
    IN  [k \in 1..Len(ok) |-> ok[k].fpds_code[1]]

When(c, filters) == IF c THEN filters ELSE <<>>

\* A translation that applies the NAICS inclusion list even when it is unset.
AwardsFiltersUnsetNaicsApplied(aq, inc, exc) ==
    << in_("naics", aq.INCLUDE_NAICS) >>

\* The filters one iteration of the loop adds to supabase.from_("awards").select("*"),
\* in the order of the code; the range is applied separately.
AwardsFilters(aq, inc, exc) ==
       When(aq.INCLUDE_RECIPIENT_UEI # <<>>,
            << or_(<<"recipient_uei", "parent_recipient_uei">>, aq.INCLUDE_RECIPIENT_UEI) >>)
    \o Concat([k \in 1..Len(aq.EXCLUDE_RECIPIENT_UEI) |->
                 << neq("recipient_uei", aq.EXCLUDE_RECIPIENT_UEI[k]),
                    neq("parent_recipient_uei", aq.EXCLUDE_RECIPIENT_UEI[k]) >>])
    \o When(aq.POTENTIAL_END_DATE_START # <<>>,
            << gte("period_of_performance_potential_end_date", aq.POTENTIAL_END_DATE_START[1]) >>)
    \o When(aq.POTENTIAL_END_DATE_END # <<>>,
            << lte("period_of_performance_potential_end_date", aq.POTENTIAL_END_DATE_END[1]) >>)
    \o When(aq.INCLUDE_NAICS # <<>>, << in_("naics", aq.INCLUDE_NAICS) >>)
    \o NeqEach("naics", aq.EXCLUDE_NAICS)
    \o When(aq.INCLUDE_PSC # <<>>, << in_("product_or_service_code", aq.INCLUDE_PSC) >>)
    \o NeqEach("product_or_service_code", aq.EXCLUDE_PSC)
    \o When(aq.INCLUDE_SET_ASIDE_IDS # <<>>, << in_("type_set_aside", aq.INCLUDE_SET_ASIDE_IDS) >>)
    \o NeqEach("type_set_aside", aq.EXCLUDE_SET_ASIDE_IDS)
    \o When(inc # <<>>, << in_("funding_agency_subtier_agency_code", inc) >>)
    \o NeqEach("funding_agency_subtier_agency_code", exc)
    \o When(aq.INCLUDE_EXTENT_COMPETED # <<>>,
            << in_("extent_competed_description", aq.INCLUDE_EXTENT_COMPETED) >>)
    \o NeqEach("extent_competed_description", aq.EXCLUDE_EXTENT_COMPETED)
    \o When(aq.AMOUNT_OBLIGATED_MINIMUM # <<>>,
            << gte("total_obligation", aq.AMOUNT_OBLIGATED_MINIMUM[1]) >>)
    \o When(aq.AMOUNT_OBLIGATED_MAXIMUM # <<>>,
            << lte("total_obligation", aq.AMOUNT_OBLIGATED_MAXIMUM[1]) >>)
    \o When(aq.KEYWORD_QUERY # <<>>, << text_search("description", aq.KEYWORD_QUERY[1]) >>)

\* The AwardsQuery values the model runs get_filtered_awards with.
AwardsQueries ==
    { EmptyAwardsQuery,
      [EmptyAwardsQuery EXCEPT !.INCLUDE_RECIPIENT_UEI = <<"U1">>,
                               !.EXCLUDE_RECIPIENT_UEI = <<"U1">>],
      [EmptyAwardsQuery EXCEPT !.INCLUDE_NAICS = <<"541511">>,
                               !.EXCLUDE_NAICS = <<"541511">>],
      [EmptyAwardsQuery EXCEPT !.INCLUDE_NAICS = <<"541511", "541512">>],
      [EmptyAwardsQuery EXCEPT !.EXCLUDE_EXTENT_COMPETED = <<"NOT COMPETED">>,
                               !.AMOUNT_OBLIGATED_MINIMUM = <<100>>],
      [EmptyAwardsQuery EXCEPT !.INCLUDE_RECIPIENT_UEI = <<"U1">>,
                               !.EXCLUDE_RECIPIENT_UEI = <<"U2">>],
      [EmptyAwardsQuery EXCEPT !.INCLUDE_ORGANIZATION_KEYS = <<"K1", "K3">>],
      [EmptyAwardsQuery EXCEPT !.INCLUDE_ORGANIZATION_KEYS = <<"K3">>,
                               !.EXCLUDE_ORGANIZATION_KEYS = <<"K2">>],
      [EmptyAwardsQuery EXCEPT !.POTENTIAL_END_DATE_START = <<11>>,
                               !.KEYWORD_QUERY = <<"radar">>],
      [EmptyAwardsQuery EXCEPT !.INCLUDE_NAICS = <<"541511", "541512">>,
                               !.EXCLUDE_NAICS = <<"928110">>],
      [EmptyAwardsQuery EXCEPT !.EXCLUDE_NAICS = <<"928110", "541512">>],
      [EmptyAwardsQuery EXCEPT !.INCLUDE_PSC = <<"D302">>,
                               !.EXCLUDE_PSC = <<"R425">>],
      [EmptyAwardsQuery EXCEPT !.INCLUDE_SET_ASIDE_IDS = <<"SBA", "NONE">>,
                               !.EXCLUDE_SET_ASIDE_IDS = <<"8A">>],
      [EmptyAwardsQuery EXCEPT !.INCLUDE_EXTENT_COMPETED = <<"FULL AND OPEN">>,
                               !.EXCLUDE_EXTENT_COMPETED = <<"NOT COMPETED">>],
      [EmptyAwardsQuery EXCEPT !.INCLUDE_RECIPIENT_UEI = <<"U1">>],
      [EmptyAwardsQuery EXCEPT !.INCLUDE_ORGANIZATION_KEYS = <<"K3">>],
      [EmptyAwardsQuery EXCEPT !.EXCLUDE_ORGANIZATION_KEYS = <<"K3">>],
      [EmptyAwardsQuery EXCEPT !.INCLUDE_ORGANIZATION_KEYS = <<"K9">>,
                               !.INCLUDE_NAICS = <<"541511">>],
      [EmptyAwardsQuery EXCEPT !.INCLUDE_ORGANIZATION_KEYS = <<"K1">>,
                               !.EXCLUDE_ORGANIZATION_KEYS = <<"K2">>],
      [EmptyAwardsQuery EXCEPT !.INCLUDE_NAICS = <<"541511", "541512">>,
                               !.EXCLUDE_PSC = <<"R425">>,
                               !.AMOUNT_OBLIGATED_MAXIMUM = <<100>>,
                               !.INCLUDE_RECIPIENT_UEI = <<"U1", "U2">>] }

----------------------------------------------------------------------------
(* get_filtered_notices: its parameters and their translation.             *)

\* get_filtered_notices(supabase) with every optional parameter left at its
\* default; active defaults to True.
DefaultNoticesArgs ==
    [ active                     |-> TRUE,
      include_naics              |-> <<>>, exclude_naics              |-> <<>>,
      include_solicitation_types |-> <<>>, exclude_solicitation_types |-> <<>>,
      include_psc                |-> <<>>, exclude_psc                |-> <<>>,
      include_set_aside_ids      |-> <<>>, exclude_set_aside_ids      |-> <<>>,
      include_organization_keys  |-> <<>>, exclude_organization_keys  |-> <<>>,
      keyword_query              |-> <<>> ]

\* Python's int(x) on the decimal strings the model passes.
int(x) ==
    CASE x = "3" -> 3 [] x = "16" -> 16 [] x = "300" -> 300 [] x = "400" -> 400
      [] x = "500" -> 500

\* [int(x) for x in xs]
Ints(xs) == [k \in 1..Len(xs) |-> int(xs[k])]

OrganizationKeyColumns ==
    << "organization_key", "organization_level_1_key", "organization_level_2_key",
       "organization_level_3_key", "organization_level_4_key", "organization_level_5_key",
       "organization_level_6_key", "organization_level_7_key" >>

\* The filters one iteration of the loop adds; current_time is the value of
\* datetime.now() read in that iteration.
NoticesFilters(a, current_time) ==
       When(a.active, << eq("latest", TRUE),
                         gt("solicitation_response_deadline", current_time) >>)
    \o When(a.include_naics # <<>>, << in_("naics", a.include_naics) >>)
    \o NeqEach("naics", a.exclude_naics)
    \o When(a.include_solicitation_types # <<>>, << in_("type", a.include_solicitation_types) >>)
    \o NeqEach("type", a.exclude_solicitation_types)
    \o When(a.include_psc # <<>>, << in_("psc", a.include_psc) >>)
    \o NeqEach("psc", a.exclude_psc)
    \o When(a.include_set_aside_ids # <<>>,
            << in_("set_aside_id", Ints(a.include_set_aside_ids)) >>)
    \o NeqEach("set_aside_id", Ints(a.exclude_set_aside_ids))
    \o When(a.include_organization_keys # <<>>,
            << or_(OrganizationKeyColumns, Ints(a.include_organization_keys)) >>)
    \o NeqEach("organization_key", Ints(a.exclude_organization_keys))
    \o When(a.keyword_query # <<>>, << text_search("opportunity_text", a.keyword_query[1]) >>)

\* The argument values the model runs get_filtered_notices with.
NoticesArgs ==
    { DefaultNoticesArgs,
      [DefaultNoticesArgs EXCEPT !.active = FALSE],
      [DefaultNoticesArgs EXCEPT !.active = FALSE,
                                 !.include_organization_keys = <<"300">>,
                                 !.exclude_organization_keys = <<"300">>],
      [DefaultNoticesArgs EXCEPT !.active = FALSE,
                                 !.include_naics = <<"541511">>,
                                 !.exclude_naics = <<"541511">>],
      [DefaultNoticesArgs EXCEPT !.include_naics = <<"541511", "541512">>],
      [DefaultNoticesArgs EXCEPT !.active = FALSE,
                                 !.exclude_solicitation_types = <<"s">>,
                                 !.exclude_set_aside_ids = <<"16">>],
      [DefaultNoticesArgs EXCEPT !.active = FALSE,
                                 !.include_organization_keys = <<"300">>,
                                 !.keyword_query = <<"media">>],
      [DefaultNoticesArgs EXCEPT !.active = FALSE,
                                 !.include_naics = <<"541511">>,
                                 !.exclude_naics = <<"541512">>],
      [DefaultNoticesArgs EXCEPT !.include_solicitation_types = <<"o", "k">>,
                                 !.exclude_solicitation_types = <<"s", "p">>],
      [DefaultNoticesArgs EXCEPT !.active = FALSE,
                                 !.exclude_solicitation_types = <<"s", "k">>],
      [DefaultNoticesArgs EXCEPT !.active = FALSE,
                                 !.include_psc = <<"D302">>,
                                 !.exclude_psc = <<"R425">>],
      [DefaultNoticesArgs EXCEPT !.active = FALSE,
                                 !.include_set_aside_ids = <<"16", "3">>,
                                 !.exclude_set_aside_ids = <<"500">>],
      [DefaultNoticesArgs EXCEPT !.active = FALSE,
                                 !.include_organization_keys = <<"300">>],
      [DefaultNoticesArgs EXCEPT !.active = FALSE,
                                 !.include_organization_keys = <<"300">>,
                                 !.exclude_organization_keys = <<"400">>],
      [DefaultNoticesArgs EXCEPT !.include_naics = <<"541511", "541512">>,
                                 !.exclude_psc = <<"R425">>,
                                 !.include_organization_keys = <<"400">>] }

----------------------------------------------------------------------------
(* The range-style loops: get_filtered_awards, get_filtered_notices and    *)
(* the loop of test2.py over the whole notices table.                      *)

RangeFunctions == {"get_filtered_awards", "get_filtered_notices", "test2"}

\* A cursor that advances by one row less than the page it fetched.
NextOffsetOverlapping(o) == o + limit - 1

\* A cursor that advances by two pages.
NextOffsetByTwoPages(o) == o + 2 * limit

\* offset += limit
NextOffset(o) == o + limit

\* The other protocol's test: a short page ends the fetch.
NoMoreDataWhenShort(data) == Len(data) < limit

\* if not result.data: break
NoMoreData(data) == data = <<>>

\* One entry of the request history: the cursor the request carried, whether
\* it succeeded, how many records it returned, the page size and the deadline
\* cutoff it carried.
Request(kind, at, ok, data, size, cutoff) ==
    [kind |-> kind, at |-> at, ok |-> ok, n |-> Len(data), size |-> size,
     cutoff |-> cutoff]

\* An error handler that hands back what was accumulated so far.
RaiseReturningPartial(exception) ==
    /\ pc' = "raised"
    /\ error' = <<exception>>
    /\ ret' = <<all_records>>

\* The function raises: nothing is returned, the exception reaches the caller.
Raise(exception) ==
    /\ pc' = "raised"
    /\ error' = <<exception>>
    /\ ret' = ret

\* The function returns value.
Return(value) ==
    /\ pc' = "done"
    /\ ret' = <<value>>
    /\ error' = error

\* The function goes on.
Continue ==
    /\ pc' = pc
    /\ ret' = ret
    /\ error' = error

\* One round trip of a range loop: result is what the store selects for the
\* query of this iteration, cutoff the deadline cutoff the query carried.
RangeStep(result, cutoff) ==
    \E ok \in BOOLEAN :
        LET data == IF ok THEN range(result, offset, offset + limit - 1) ELSE <<>> IN
        /\ reqlog' = Append(reqlog, Request("page", offset, ok, data, limit, cutoff))
        /\ IF ~ok
           THEN /\ Raise("APIError")
                /\ UNCHANGED <<all_records, offset>>
           ELSE IF NoMoreData(data)
           THEN /\ Return(all_records)
                /\ UNCHANGED <<all_records, offset>>
           ELSE /\ all_records' = all_records \o data
                /\ offset' = NextOffset(offset)
                /\ Continue

\* One organizations lookup of get_filtered_awards (lines 35-44 and 46-55):
\* no request when the key list is falsy.
OrgLookup(keys, next) ==
    IF keys = <<>>
    THEN /\ pc' = next
         /\ UNCHANGED <<reqlog, ret, error>>
    ELSE \E ok \in BOOLEAN :
         /\ reqlog' = Append(reqlog, Request("lookup", 0, ok, <<>>, 0, <<>>))
         /\ IF ok THEN pc' = next /\ UNCHANGED <<ret, error>>
                  ELSE Raise("APIError")

get_filtered_awards_lookup_include ==
    /\ fn = "get_filtered_awards"
    /\ pc = "lookup_include"
    /\ OrgLookup(args.INCLUDE_ORGANIZATION_KEYS, "lookup_exclude")
    /\ fpds_codes_include' = IF pc' = "raised" THEN fpds_codes_include
                             ELSE ResolveFpdsCodes(args.INCLUDE_ORGANIZATION_KEYS)
    /\ UNCHANGED <<inputs, mismatches, store, now, offset, page_number, all_records,
                   fpds_codes_exclude, first_page, first_result, history>>

get_filtered_awards_lookup_exclude ==
    /\ fn = "get_filtered_awards"
    /\ pc = "lookup_exclude"
    /\ OrgLookup(args.EXCLUDE_ORGANIZATION_KEYS, "loop")
    /\ fpds_codes_exclude' = IF pc' = "raised" THEN fpds_codes_exclude
                             ELSE ResolveFpdsCodes(args.EXCLUDE_ORGANIZATION_KEYS)
    /\ UNCHANGED <<inputs, mismatches, store, now, offset, page_number, all_records,
                   fpds_codes_include, first_page, first_result, history>>

\* What the awards table selects for this run's query right now.
AwardsMatching ==
    AwardsResult(store, AwardsFilters(args, fpds_codes_include, fpds_codes_exclude))

get_filtered_awards_page ==
    /\ fn = "get_filtered_awards"
    /\ pc = "loop"
    /\ RangeStep(AwardsMatching, <<>>)
    /\ UNCHANGED <<inputs, mismatches, store, now, page_number, lookups, first_result, history>>

\* What the notices table selects for this run's query with the given cutoff.
NoticesMatching(current_time) == NoticesResult(store, NoticesFilters(args, current_time))

\* current_time = datetime.now(timezone.utc) is read inside the loop, once per
\* iteration (line 56).
get_filtered_notices_page ==
    /\ fn = "get_filtered_notices"
    /\ pc = "loop"
    /\ LET current_time == now IN
       RangeStep(NoticesMatching(current_time), IF args.active THEN <<current_time>> ELSE <<>>)
    /\ UNCHANGED <<inputs, mismatches, store, now, page_number, lookups, first_result, history>>

\* test2.py: supabase.table("notices").select("*").range(...) with no filter.
test2_page ==
    /\ fn = "test2"
    /\ pc = "loop"
    /\ RangeStep(store, <<>>)
    /\ UNCHANGED <<inputs, mismatches, store, now, page_number, lookups, first_result, history>>

----------------------------------------------------------------------------
(* The environment of a range loop.                                        *)

\* The wall clock advances between two iterations of get_filtered_notices.
Tick ==
    /\ fn = "get_filtered_notices"
    /\ pc = "loop"
    /\ args.active
    /\ now < MaxTime
    /\ now' = now + 1
    /\ UNCHANGED <<inputs, mismatches, pc, store, offset, page_number, all_records, lookups,
                   ret, error, first_result, reqlog, history>>

\* Another writer inserts a row into the table between two page requests.
WriterInsert ==
    /\ concurrent
    /\ pc = "loop"
    /\ nwrites < MaxWrites
    /\ \E p \in 1..(Len(store) + 1) :
        /\ store' = InsertAt(store, p, MaxRows + nwrites + 1)
        /\ writesBefore' = IF p - 1 < offset THEN writesBefore \cup {"insert"}
                           ELSE writesBefore
    /\ nwrites' = nwrites + 1
    /\ UNCHANGED <<inputs, mismatches, pc, now, offset, page_number, all_records, lookups,
                   ret, error, first_result, reqlog, concurrent, stable>>

\* Another writer deletes a row of the table between two page requests.
WriterDelete ==
    /\ concurrent
    /\ pc = "loop"
    /\ nwrites < MaxWrites
    /\ \E p \in 1..Len(store) :
        /\ store' = RemoveAt(store, p)
        /\ stable' = stable \ {store[p]}
        /\ writesBefore' = IF p - 1 < offset THEN writesBefore \cup {"delete"}
                           ELSE writesBefore
    /\ nwrites' = nwrites + 1
    /\ UNCHANGED <<inputs, mismatches, pc, now, offset, page_number, all_records, lookups,
                   ret, error, first_result, reqlog, concurrent>>

----------------------------------------------------------------------------
(* The page-number-style loops over the HigherGov API:                     *)
(* highergov_get_all_awards, highergov_get_all_opportunities (testing.py)  *)
(* and get_all_opportunities_for_searchid (highergov_api.py). The table is *)
(* the API's result list for the run's filter parameters.                  *)

HigherGovFunctions == {"highergov_get_all_awards", "highergov_get_all_opportunities"}

\* if page_size > 100: raise ValueError
MaxApiPageSize == 100
\* highergov_api.py: DEFAULT_PAGE_SIZE, DEFAULT_MAX_PAGE_NUMBER
DEFAULT_PAGE_SIZE == 25
DEFAULT_MAX_PAGE_NUMBER == 1

\* A fetch issues at most this many requests in the model; a fetch that ends
\* needs at most one request per record and one more.
MaxRequests == MaxRows + 2

\* The pages the API may answer a request for page p of size ps with. For
\* ps >= 1 it is the p-th page of the result list. What the API answers to a
\* page_size below 1 is not the repository's to decide: an empty page, or a
\* page cut with a page size of the server's own (here 1).
ApiPages(p, ps) ==
    IF ps >= 1 THEN {Slice(store, (p - 1) * ps, p * ps)}
    ELSE {<<>>, Slice(store, p - 1, p)}

\* Does the response carry links.next: are there records after this page?
HasNext(p, ps) == IF ps >= 1 THEN p * ps < Len(store) ELSE p < Len(store)

\* A test that also stops on a full page.
LastPageWhenFull(contracts, page_size) == Len(contracts) <= page_size

\* if len(contracts) < page_size: break
LastPage(contracts, page_size) == Len(contracts) < page_size

\* A cursor that skips every other page.
NextPageSkipping(p) == p + 2

\* page_number += 1
NextPage(p) == p + 1

\* Lines 55-59 / 146-150: the checks before any request.
highergov_validate ==
    /\ fn \in HigherGovFunctions
    /\ pc = "validate"
    /\ IF args.api_key = "" THEN Raise("ValueError")
       ELSE IF args.page_size > MaxApiPageSize THEN Raise("ValueError")
       ELSE pc' = "loop" /\ UNCHANGED <<ret, error>>
    /\ UNCHANGED <<inputs, mismatches, store, now, offset, page_number, all_records, lookups,
                   first_result, reqlog, history>>

\* One iteration of the while True loop of highergov_get_all_awards /
\* highergov_get_all_opportunities.
HigherGovStep ==
    /\ pc = "loop"
    /\ Len(reqlog) < MaxRequests
    /\ \E ok \in BOOLEAN :
        IF ~ok
        THEN /\ reqlog' = Append(reqlog, Request("page", page_number, FALSE, <<>>,
                                                  args.page_size, <<>>))
             /\ Raise("HTTPError")
             /\ UNCHANGED <<all_records, page_number>>
        ELSE \E contracts \in ApiPages(page_number, args.page_size) :
             /\ reqlog' = Append(reqlog, Request("page", page_number, TRUE, contracts,
                                                  args.page_size, <<>>))
             /\ all_records' = all_records \o contracts
             /\ IF LastPage(contracts, args.page_size)
                THEN Return(all_records') /\ UNCHANGED page_number
                ELSE page_number' = NextPage(page_number) /\ Continue

highergov_get_all_awards_page ==
    /\ fn = "highergov_get_all_awards"
    /\ HigherGovStep
    /\ UNCHANGED <<inputs, mismatches, store, now, offset, lookups, first_result, history>>

highergov_get_all_opportunities_page ==
    /\ fn = "highergov_get_all_opportunities"
    /\ HigherGovStep
    /\ UNCHANGED <<inputs, mismatches, store, now, offset, lookups, first_result, history>>

\* The pagination-idempotence test of the specification: once a fetch with an
\* even page size P has returned, the same fetch is run again with P / 2.
refetch_with_half_page_size ==
    /\ fn \in HigherGovFunctions
    /\ pc = "done"
    /\ first_result = <<>>
    /\ args.page_size >= 2
    /\ args.page_size % 2 = 0
    /\ first_result' = ret
    /\ args' = [args EXCEPT !.page_size = @ \div 2]
    /\ pc' = "loop"
    /\ page_number' = 1
    /\ all_records' = <<>>
    /\ ret' = <<>>
    /\ reqlog' = <<>>
    /\ UNCHANGED <<fn, env, mismatches, store, now, offset, lookups, error, history>>

\* One iteration of the loop of get_all_opportunities_for_searchid; the
\* request goes through get_opportunities and call_endpoint, whose
\* raise_for_status raises on an error status.
get_all_opportunities_for_searchid_page ==
    /\ fn = "get_all_opportunities_for_searchid"
    /\ pc = "loop"
    /\ Len(reqlog) < MaxRequests
    /\ \E ok \in BOOLEAN :
        IF ~ok
        THEN /\ reqlog' = Append(reqlog, Request("page", page_number, FALSE, <<>>,
                                                  args.page_size, <<>>))
             /\ Raise("HTTPError")
             /\ UNCHANGED <<all_records, page_number>>
        ELSE \E results \in ApiPages(page_number, args.page_size) :
             /\ reqlog' = Append(reqlog, Request("page", page_number, TRUE, results,
                                                  args.page_size, <<>>))
             /\ IF results = <<>>
                THEN Return(all_records) /\ UNCHANGED <<all_records, page_number>>
                ELSE /\ all_records' = all_records \o results
                     /\ IF ~HasNext(page_number, args.page_size)
                           \/ page_number >= args.max_page_number
                        THEN Return(all_records') /\ UNCHANGED page_number
                        ELSE page_number' = page_number + 1 /\ Continue
    /\ UNCHANGED <<inputs, mismatches, store, now, offset, lookups, first_result, history>>

\* The arguments the model runs the API fetchers with.
HigherGovArgs ==
    { [api_key |-> k, page_size |-> ps] :
        k \in {"key"}, ps \in {0 - 1, 0, 1, 2, 3, 4, MaxApiPageSize, MaxApiPageSize + 1} }
    \cup {[api_key |-> "", page_size |-> 2]}

SearchIdArgs ==
    { [max_page_number |-> m, page_size |-> ps] :
        m \in {0, DEFAULT_MAX_PAGE_NUMBER, 2, 100}, ps \in {1, 2, DEFAULT_PAGE_SIZE} }

----------------------------------------------------------------------------
(* get_filtered_opportunities and get_all_filtered_opportunities           *)
(* (testing.py). The model leaves agencies and the posted-date range at    *)
(* their default None.                                                     *)

\* Step 1: the filters of filter_query; "now()" is the server's clock.
OpportunityFilters(a, t) ==
       When(a.active, << gt("solicitation_response_deadline", t) >>)
    \o When(a.date_due_start # <<>>,
            << gte("solicitation_response_deadline", a.date_due_start[1]) >>)
    \o When(a.date_due_end # <<>>,
            << lte("solicitation_response_deadline", a.date_due_end[1]) >>)
    \o When(a.naics_codes # <<>>, << in_("naics", a.naics_codes) >>)
    \o When(a.psc_codes # <<>>, << in_("psc", a.psc_codes) >>)
    \o When(a.set_asides # <<>>, << in_("solicitation_set_aside", a.set_asides) >>)
    \o << in_("type", <<"o", "p", "k", "r", "i">>),
          not_in("type", <<"a", "s", "j", "g", "f", "u", "v", "z">>) >>

\* notice.get(col) in codes, and its variant of the final verification
\* (value in codes if value else False): both are False for a NULL column.
CodeMatch(i, col, codes) ==
    codes = <<>> \/ (NoticeRow(i)[col] # <<>> /\ NoticeRow(i)[col][1] \in Range(codes))

\* Lines 935-948 and 1063-1082: keep the notices whose naics / psc match.
Verified(ids, a) ==
    IF a.naics_codes # <<>> \/ a.psc_codes # <<>>
    THEN SelectSeq(ids, LAMBDA i : CodeMatch(i, "naics", a.naics_codes)
                                   /\ CodeMatch(i, "psc", a.psc_codes))
    ELSE ids

\* A selection that keeps every filtered notice, latest or not.
FilteredNotLatest(a, t) == Verified(NoticesResult(store, OpportunityFilters(a, t)), a)

\* Steps 2-4: the filtered notices whose notice_id is the latest_notice_id of
\* one of the solicitations the filtered notices belong to.
FilteredAndLatest(a, t) ==
    LET filtered == Verified(NoticesResult(store, OpportunityFilters(a, t)), a)
        solicitation_ids == {NoticeRow(i).solicitation_id[1] :
                               i \in {j \in Range(filtered) : NoticeRow(j).solicitation_id # <<>>}}
        latest_notice_ids == {Solicitations[k].latest_notice_id[1] :
                                k \in {j \in 1..Len(Solicitations) :
                                         /\ Solicitations[j].solicitation_id[1] \in solicitation_ids
                                         /\ Solicitations[j].latest_notice_id # <<>>}}
    IN  SelectSeq(filtered, LAMBDA i : NoticeRow(i).notice_id[1] \in latest_notice_ids)

\* ORDER BY solicitation_response_deadline ASC (NULLs last); rows with equal
\* deadlines keep the table's order.
DueBefore(i, j) ==
    LET di == NoticeRow(i).solicitation_response_deadline
        dj == NoticeRow(j).solicitation_response_deadline
    IN  di # <<>> /\ (dj = <<>> \/ di[1] < dj[1])

\* The row at position i comes after the rows due before it and after the
\* rows before it in ids that are due at the same time.
OrderByDeadline(ids) ==
    LET Rank(i) == Cardinality({j \in 1..Len(ids) :
                       \/ DueBefore(ids[j], ids[i])
                       \/ (~DueBefore(ids[i], ids[j]) /\ j < i)}) + 1
    IN  [r \in 1..Len(ids) |-> ids[CHOOSE i \in 1..Len(ids) : Rank(i) = r]]

\* Lines 998-999 and 1085-1086: the count and the pages get_filtered_opportunities
\* reports, given the notices that are filtered and latest and the page's data.
ReportedCount(a, total_count, data) ==
    IF a.naics_codes # <<>> \/ a.psc_codes # <<>> THEN Len(data) ELSE total_count

\* The dict get_filtered_opportunities returns for page `page`.
get_filtered_opportunities(a, page, page_size, t) ==
    LET filtered_and_latest == FilteredAndLatest(a, t)
        total_count == Len(filtered_and_latest)
        start_idx == (page - 1) * page_size
        end_idx == Min(start_idx + page_size, total_count)
        page_notice_ids == Slice(filtered_and_latest, start_idx, end_idx)
        detailed == OrderByDeadline(SelectSeq(store, LAMBDA i : i \in Range(page_notice_ids)))
        data == Verified(detailed, a)
        count == IF page_notice_ids = <<>> THEN total_count
                 ELSE ReportedCount(a, total_count, data)
    IN  [count |-> count, data |-> data, page |-> page, page_size |-> page_size,
         total_pages |-> CeilDiv(count, page_size)]

\* One call of get_filtered_opportunities in the request history.
Call(page, ok, result) ==
    [kind |-> "call", at |-> page, ok |-> ok, n |-> Len(result.data),
     size |-> result.page_size, count |-> result.count,
     total_pages |-> result.total_pages]

\* A database error inside get_filtered_opportunities is printed and re-raised
\* (lines 1104-1106).
get_filtered_opportunities_call ==
    /\ fn = "get_filtered_opportunities"
    /\ pc = "loop"
    /\ LET result == get_filtered_opportunities(args, args.page, args.page_size, now) IN
       \E ok \in BOOLEAN :
        /\ reqlog' = Append(reqlog, Call(args.page, ok, result))
        /\ IF ok THEN Return(result) ELSE Raise("APIError")
    /\ UNCHANGED <<inputs, mismatches, store, now, offset, page_number, all_records, lookups,
                   first_result, history>>

\* pages_to_fetch = min(total_pages, max_pages or total_pages)
PagesToFetch(total_pages, max_pages) ==
    Min(total_pages, IF max_pages = <<>> \/ max_pages = <<0>> THEN total_pages
                     ELSE max_pages[1])

AllOpportunities(first, data, pages_to_fetch) ==
    [count |-> first.count, data |-> data, pages_retrieved |-> pages_to_fetch,
     total_pages |-> first.total_pages]

\* Lines 1137-1158: the first page, which also fixes the number of pages.
get_all_filtered_opportunities_first_page ==
    /\ fn = "get_all_filtered_opportunities"
    /\ pc = "first_page"
    /\ LET result == get_filtered_opportunities(args, 1, args.page_size, now)
           pages_to_fetch == PagesToFetch(result.total_pages, args.max_pages)
       IN  \E ok \in BOOLEAN :
            /\ reqlog' = Append(reqlog, Call(1, ok, result))
            /\ IF ~ok
               THEN Raise("APIError") /\ UNCHANGED <<all_records, first_page, page_number>>
               ELSE /\ all_records' = result.data
                    /\ first_page' = <<result>>
                    /\ IF pages_to_fetch >= 2
                       THEN /\ pc' = "loop"
                            /\ page_number' = 2
                            /\ UNCHANGED <<ret, error>>
                       ELSE /\ Return(AllOpportunities(result, result.data, pages_to_fetch))
                            /\ UNCHANGED page_number
    /\ UNCHANGED <<inputs, mismatches, store, now, offset, fpds_codes_include, fpds_codes_exclude,
                   first_result, history>>

\* Lines 1161-1186: for page in range(2, pages_to_fetch + 1), then the return.
get_all_filtered_opportunities_next_page ==
    /\ fn = "get_all_filtered_opportunities"
    /\ pc = "loop"
    /\ LET result == get_filtered_opportunities(args, page_number, args.page_size, now)
           pages_to_fetch == PagesToFetch(first_page[1].total_pages, args.max_pages)
       IN  \E ok \in BOOLEAN :
            /\ reqlog' = Append(reqlog, Call(page_number, ok, result))
            /\ IF ~ok
               THEN Raise("APIError") /\ UNCHANGED <<all_records, page_number>>
               ELSE /\ all_records' = all_records \o result.data
                    /\ IF page_number < pages_to_fetch
                       THEN page_number' = page_number + 1 /\ Continue
                       ELSE /\ Return(AllOpportunities(first_page[1], all_records',
                                                       pages_to_fetch))
                            /\ UNCHANGED page_number
    /\ UNCHANGED <<inputs, mismatches, store, now, offset, lookups, first_result, history>>

\* The arguments the model runs the two functions with.
OpportunityArgs ==
    { [active |-> act, naics_codes |-> nc, psc_codes |-> <<>>, set_asides |-> <<>>,
       date_due_start |-> <<>>, date_due_end |-> <<>>,
       page |-> pg, page_size |-> ps, max_pages |-> mp] :
        act \in BOOLEAN, nc \in {<<>>, <<"541511", "541512">>},
        pg \in 1..3, ps \in 1..3, mp \in {<<>>} }

AllOpportunityArgs ==
    { [active |-> act, naics_codes |-> nc, psc_codes |-> pc_, set_asides |-> <<>>,
       date_due_start |-> <<>>, date_due_end |-> <<>>,
       page |-> 1, page_size |-> ps, max_pages |-> mp] :
        act \in BOOLEAN, nc \in {<<>>, <<"541511", "541512">>},
        pc_ \in {<<>>, <<"D302">>},
        ps \in 1..3, mp \in {<<>>, <<0>>, <<1>>, <<2>>} }

----------------------------------------------------------------------------
(* results_compre_Lawrence.py: the reconciliation of the opportunities of  *)
(* a HigherGov CSV export with those of a results JSON file. A record is   *)
(* its Identity Set, a Python set of identifier strings; a collection is a *)
(* list of them, duplicates kept.                                          *)

Identifiers == {"X1", "X2", "Y1"}

\* The collections a loader can produce, of MaxOps records at most.
Collections ==
    UNION { [1..n -> SUBSET Identifiers] : n \in 0..MaxOps }

\* A scan that looks at the first record of the other collection only.
find_match_first_only(opportunity, other_opportunities) ==
    other_opportunities # <<>> /\ opportunity \cap Head(other_opportunities) # {}

\* A scan that matches a record only with an identical one.
find_match_equal(opportunity, other_opportunities) ==
    \E k \in 1..Len(other_opportunities) : other_opportunities[k] = opportunity

\* A scan that wants the record to share an identifier with every other one.
find_match_all(opportunity, other_opportunities) ==
    /\ other_opportunities # <<>>
    /\ \A k \in 1..Len(other_opportunities) : opportunity \cap other_opportunities[k] # {}

\* for other in other_opportunities: if opportunity.intersection(other):
\* return True; return False
RECURSIVE find_match(_, _)
find_match(opportunity, other_opportunities) ==
    IF other_opportunities = <<>> THEN FALSE
    ELSE IF opportunity \cap Head(other_opportunities) # {} THEN TRUE
    ELSE find_match(opportunity, Tail(other_opportunities))

\* A comprehension that keeps each distinct record once.
UnmatchedOnce(ops, others) ==
    LET kept == SelectSeq(ops, LAMBDA op : ~find_match(op, others))
        first == {k \in 1..Len(kept) : \A j \in 1..(k - 1) : kept[j] # kept[k]}
    IN  [m \in 1..Cardinality(first) |->
            kept[CHOOSE k \in first : Cardinality({j \in first : j < k}) = m - 1]]

\* A comprehension that keeps the matched records.
UnmatchedInverted(ops, others) == SelectSeq(ops, LAMBDA op : find_match(op, others))

\* A comparison that skips the first record of the other collection.
UnmatchedAgainstRest(ops, others) ==
    SelectSeq(ops, LAMBDA op : ~find_match(op, IF others = <<>> THEN <<>> ELSE Tail(others)))

\* A comparison that merges groups: a record also counts as matched when a
\* record of its own collection that shares an identifier with it is matched.
UnmatchedMergingGroups(ops, others) ==
    SelectSeq(ops, LAMBDA op :
        ~(\/ find_match(op, others)
          \/ \E k \in 1..Len(ops) : ops[k] \cap op # {} /\ find_match(ops[k], others)))

\* [op for op in ops if not find_match(op, others)]
Unmatched(ops, others) == SelectSeq(ops, LAMBDA op : ~find_match(op, others))

\* mismatch_records_csv = [op for op in csv_ops if not find_match(op, results_ops)]
main_mismatch_records_csv ==
    /\ fn = "results_compre_Lawrence"
    /\ pc = "mismatch_records_csv"
    /\ mismatch_records_csv' = Unmatched(args.csv_ops, args.results_ops)
    /\ pc' = "mismatch_records_results"
    /\ UNCHANGED <<inputs, mismatch_records_results, store, now, offset, page_number,
                   all_records, lookups, ret, error, first_result, reqlog, history>>

\* mismatch_records_results = [op for op in results_ops if not find_match(op, csv_ops)]
main_mismatch_records_results ==
    /\ fn = "results_compre_Lawrence"
    /\ pc = "mismatch_records_results"
    /\ mismatch_records_results' = Unmatched(args.results_ops, args.csv_ops)
    /\ pc' = "report"
    /\ UNCHANGED <<inputs, mismatch_records_csv, store, now, offset, page_number,
                   all_records, lookups, ret, error, first_result, reqlog, history>>

\* The report main prints: the two counts, their sum, and the two lists.
Report(records_csv, records_results) ==
    [ mismatches_csv           |-> Len(records_csv),
      mismatches_results       |-> Len(records_results),
      total_mismatches         |-> Len(records_csv) + Len(records_results),
      mismatch_records_csv     |-> records_csv,
      mismatch_records_results |-> records_results ]

main_report ==
    /\ fn = "results_compre_Lawrence"
    /\ pc = "report"
    /\ Return(Report(mismatch_records_csv, mismatch_records_results))
    /\ UNCHANGED <<inputs, mismatches, store, now, offset, page_number, all_records,
                   lookups, first_result, reqlog, history>>

\* The two collections main compares.
ReconciliationArgs ==
    { [csv_ops |-> A, results_ops |-> B] : A \in Collections, B \in Collections }

----------------------------------------------------------------------------
(* The single-record lookups of testing.py and call_endpoint of            *)
(* highergov_api.py. A Python value passed as an identifier is its type    *)
(* and its text.                                                           *)

PyStr(text) == [type |-> "str", text |-> text]
PyInt(text) == [type |-> "int", text |-> text]
PyNone == [type |-> "NoneType", text |-> "None"]

\* bool(v)
Truthy(v) ==
    CASE v.type = "str" -> v.text # ""
      [] v.type = "int" -> v.text # "0"
      [] OTHER -> FALSE

\* isinstance(v, str)
isinstance_str(v) == v.type = "str"

\* A check that rejects the empty identifiers only.
InvalidIdentifierEmptyOnly(v) == ~Truthy(v)

\* if not piid or not isinstance(piid, str): raise ValueError(...)
InvalidIdentifier(v) == ~Truthy(v) \/ ~isinstance_str(v)

\* .limit(1)
Limit1(rows) == IF rows = <<>> THEN <<>> ELSE <<rows[1]>>

\* The error the Supabase client raises on a failed request, the error
\* raise_for_status raises, and the one the except clauses of get_award_by_piid
\* and get_opportunity_by_solicitation_id raise in its place:
\* raise Exception(f"Database error: {str(e)}").
StoreError == "APIError"
HTTPError == "HTTPError"
DatabaseError == "Exception: Database error"

\* get_award_by_piid (lines 197-231): the award row, or {} (here <<>>).
get_award_by_piid_call ==
    /\ fn = "get_award_by_piid"
    /\ pc = "loop"
    /\ IF InvalidIdentifier(args.piid)
       THEN Raise("ValueError") /\ UNCHANGED reqlog
       ELSE LET data == Limit1(SelectSeq(store, LAMBDA i : AwardRow(i).piid = <<args.piid.text>>))
            IN  \E ok \in BOOLEAN :
                 /\ reqlog' = Append(reqlog, Request("query", 0, ok, data, 1, <<>>))
                 /\ IF ok THEN Return(data) ELSE Raise(DatabaseError)
    /\ UNCHANGED <<inputs, mismatches, store, now, offset, page_number, all_records, lookups,
                   first_result, history>>

\* get_opportunity_by_solicitation_id (lines 499-547): the solicitations
\* query, then the notices query for its latest_notice_id; {} when either
\* finds nothing.
get_opportunity_by_solicitation_id_call ==
    /\ fn = "get_opportunity_by_solicitation_id"
    /\ pc = "loop"
    /\ IF InvalidIdentifier(args.solicitation_id)
       THEN Raise("ValueError") /\ UNCHANGED reqlog
       ELSE LET solicitation == Limit1(SelectSeq(Solicitations, LAMBDA sol :
                                    /\ sol.solicitation_id = <<args.solicitation_id.text>>
                                    /\ sol.deleted = FALSE))
                latest_notice_id == IF solicitation = <<>> THEN <<>>
                                    ELSE solicitation[1].latest_notice_id
                notice == Limit1(SelectSeq(store, LAMBDA i :
                                    NoticeRow(i).notice_id = latest_notice_id))
                first(ok) == Request("query", 0, ok, solicitation, 1, <<>>)
                second(ok) == Request("query", 0, ok, notice, 1, <<>>)
            IN  \E ok1, ok2 \in BOOLEAN :
                 IF ~ok1
                 THEN reqlog' = Append(reqlog, first(FALSE)) /\ Raise(DatabaseError)
                 ELSE IF solicitation = <<>> \/ latest_notice_id = <<>>
                 THEN reqlog' = Append(reqlog, first(TRUE)) /\ Return(<<>>)
                 ELSE /\ reqlog' = reqlog \o <<first(TRUE), second(ok2)>>
                      /\ IF ok2 THEN Return(notice) ELSE Raise(DatabaseError)
    /\ UNCHANGED <<inputs, mismatches, store, now, offset, page_number, all_records, lookups,
                   first_result, history>>

\* get_naics_id_by_code (lines 549-563) and get_psc_id_by_code (565-579):
\* the id of the first row with the code, None (here <<>>) when there is no
\* such row; the except clause prints the error and returns None.
IdByCode(ids) ==
    \E ok \in BOOLEAN :
        /\ reqlog' = Append(reqlog, Request("query", 0, ok, ids, 1, <<>>))
        /\ IF ok THEN Return(IF ids = <<>> THEN <<>> ELSE ids[1])
                 ELSE Return(<<>>)

get_naics_id_by_code_call ==
    /\ fn = "get_naics_id_by_code"
    /\ pc = "loop"
    /\ LET hit == Limit1(SelectSeq(store, LAMBDA i : NaicsRow(i).naics_code = args.naics_code))
       IN  IdByCode([k \in 1..Len(hit) |-> NaicsRow(hit[k]).naics_id])
    /\ UNCHANGED <<inputs, mismatches, store, now, offset, page_number, all_records, lookups,
                   first_result, history>>

get_psc_id_by_code_call ==
    /\ fn = "get_psc_id_by_code"
    /\ pc = "loop"
    /\ LET hit == Limit1(SelectSeq(store, LAMBDA i : PscRow(i).psc_code = args.psc_code))
       IN  IdByCode([k \in 1..Len(hit) |-> PscRow(hit[k]).psc_id])
    /\ UNCHANGED <<inputs, mismatches, store, now, offset, page_number, all_records, lookups,
                   first_result, history>>

\* call_endpoint (highergov_api.py 29-48): one GET; raise_for_status raises
\* on an error status, otherwise the parsed JSON is returned.
call_endpoint_call ==
    /\ fn = "call_endpoint"
    /\ pc = "loop"
    /\ \E ok \in BOOLEAN :
        \E results \in ApiPages(args.page_number, args.page_size) :
            /\ reqlog' = Append(reqlog, Request("query", args.page_number, ok,
                                                 IF ok THEN results ELSE <<>>,
                                                 args.page_size, <<>>))
            /\ IF ok THEN Return([results |-> results,
                                  next |-> HasNext(args.page_number, args.page_size)])
                     ELSE Raise(HTTPError)
    /\ UNCHANGED <<inputs, mismatches, store, now, offset, page_number, all_records, lookups,
                   first_result, history>>

LookupFunctions ==
    {"get_award_by_piid", "get_opportunity_by_solicitation_id", "get_naics_id_by_code",
     "get_psc_id_by_code", "call_endpoint"}

\* The arguments the model runs the lookups with.
Identifiers_(texts) ==
    {PyStr(t) : t \in texts} \cup {PyStr(""), PyNone, PyInt("0"), PyInt("7")}

LookupArgs(f) ==
    CASE f = "get_award_by_piid" ->
            {[piid |-> v] : v \in Identifiers_({"P1", "P2", "P9"})}
      [] f = "get_opportunity_by_solicitation_id" ->
            {[solicitation_id |-> v] : v \in Identifiers_({"S1", "S3", "S6", "S9"})}
      [] f = "get_naics_id_by_code" -> {[naics_code |-> c] : c \in {"541512", "000000"}}
      [] f = "get_psc_id_by_code" -> {[psc_code |-> c] : c \in {"D302", "R425", "0000"}}
      [] f = "call_endpoint" -> {[page_number |-> p, page_size |-> ps] : p \in 1..3, ps \in 1..2}

----------------------------------------------------------------------------
(* compare_award_data (testing.py) and its helpers. A JSON document is     *)
(* made of the Python values above and of dicts and lists; the order of a  *)
(* dict's keys is not modelled.                                            *)

PyFloat(text) == [type |-> "float", text |-> text]
PyDict(items) == [type |-> "dict", items |-> items]
PyList(elems) == [type |-> "list", elems |-> elems]

\* The dict with the given (key, value) pairs.
Dict(pairs) ==
    PyDict([k \in {p[1] : p \in pairs} |-> (CHOOSE p \in pairs : p[1] = k)[2]])

\* What an expression evaluates to: a value, or the exception it raises.
Value(v) == [exception |-> <<>>, value |-> v]
Raises(e) == [exception |-> <<e>>, value |-> PyNone]

\* obj[key] for a str key: a dict without the key raises KeyError; None, a
\* number, a str and a list raise TypeError.
GetItem(obj, key) ==
    IF obj.type = "dict"
    THEN IF key \in DOMAIN obj.items THEN Value(obj.items[key]) ELSE Raises("KeyError")
    ELSE Raises("TypeError")

\* field.split('.') for the dotted paths of the model's field mappings.
split(field) ==
    CASE field = "awardee.uei" -> <<"awardee", "uei">>
      [] field = "naics_code.naics_code" -> <<"naics_code", "naics_code">>
      [] field = "transactions.0.action_date" -> <<"transactions", "0", "action_date">>
      [] OTHER -> <<field>>

\* for key in keys: obj = obj[key]
RECURSIVE Walk(_, _)
Walk(obj, keys) ==
    IF keys = <<>> THEN Value(obj)
    ELSE LET item == GetItem(obj, Head(keys))
         IN  IF item.exception # <<>> THEN item ELSE Walk(item.value, Tail(keys))

\* A lookup whose except clause catches KeyError only.
get_nested_value_catching_KeyError(obj, field) ==
    LET found == Walk(obj, split(field))
    IN  IF found.exception = <<"KeyError">> THEN Value(PyNone) ELSE found

\* get_nested_value (lines 233-240): except (KeyError, TypeError,
\* AttributeError): return None.
get_nested_value(obj, field) ==
    LET found == Walk(obj, split(field))
    IN  IF found.exception # <<>> /\ found.exception[1] \in {"KeyError", "TypeError", "AttributeError"}
        THEN Value(PyNone)
        ELSE found

\* value.strip() for the strings of the model.
strip(text) == CASE text = " U1 " -> "U1" [] OTHER -> text

\* standardize_value (lines 242-255): None stays None, a str is stripped, an
\* int or a float becomes a float, anything else is left alone.
standardize_value(value) ==
    CASE value.type = "str" -> PyStr(strip(value.text))
      [] value.type \in {"int", "float"} -> PyFloat(value.text)
      [] OTHER -> value

\* safe_compare_text (lines 257-261) with condition
\* lambda a, b: a == custom.a and b == custom.b.
safe_compare_text(x, y, custom) ==
    IF x = PyNone \/ y = PyNone THEN FALSE
    ELSE x = PyStr(custom.a) /\ y = PyStr(custom.b)

\* field_mappings (lines 311-431): one mapping of each shape.
field_mappings ==
    << [hg_field |-> "award_id", sb_field |-> "piid",
        display_name |-> "Award ID/PIID", custom_compare |-> <<>>],
       [hg_field |-> "total_dollars_obligated", sb_field |-> "total_obligation",
        display_name |-> "Total Obligation", custom_compare |-> <<>>],
       [hg_field |-> "awardee.uei", sb_field |-> "recipient_uei",
        display_name |-> "Recipient UEI", custom_compare |-> <<>>],
       [hg_field |-> "naics_code.naics_code", sb_field |-> "naics",
        display_name |-> "NAICS Code", custom_compare |-> <<>>],
       [hg_field |-> "latest_action_date", sb_field |-> "transactions.0.action_date",
        display_name |-> "Latest Action Date", custom_compare |-> <<>>],
       [hg_field |-> "extent_competed", sb_field |-> "extent_competed_description",
        display_name |-> "Extent Competed",
        custom_compare |-> <<[a |-> "Not Competed", b |-> "NOT COMPETED"]>>] >>

\* _flatten_dict (lines 773-791), as the set of the key paths of the leaves.
RECURSIVE flatten_dict(_, _)
flatten_dict(d, parent_key) ==
    UNION { IF d.items[k].type = "dict"
            THEN flatten_dict(d.items[k], Append(parent_key, k))
            ELSE {Append(parent_key, k)} : k \in DOMAIN d.items }

\* Lines 465-495: the fields of a record that no mapping names.
Unmapped(record, mapped) ==
    flatten_dict(PyDict([k \in DOMAIN record.items \ mapped |-> record.items[k]]), <<>>)

\* Lines 432-463: the comparison of one mapping, and where it is filed.
CompareField(hg, sb, mapping) ==
    LET hg_found == get_nested_value(hg, mapping.hg_field)
        sb_found == get_nested_value(sb, mapping.sb_field)
        hg_value == standardize_value(hg_found.value)
        sb_value == standardize_value(sb_found.value)
        matches == IF mapping.custom_compare # <<>>
                   THEN safe_compare_text(hg_value, sb_value, mapping.custom_compare[1])
                   ELSE hg_value = sb_value
    IN  [exception |-> hg_found.exception \o sb_found.exception,
         matches |-> matches, field |-> mapping.display_name,
         higher_gov_value |-> hg_value, supabase_value |-> sb_value]

\* comparison_results of compare_award_data for the records hg and sb.
ComparisonResults(hg, sb) ==
    LET compared == [k \in 1..Len(field_mappings) |-> CompareField(hg, sb, field_mappings[k])]
        raised == SelectSeq(compared, LAMBDA c : c.exception # <<>>)
    IN  IF raised # <<>> THEN Raises(raised[1].exception[1])
        ELSE Value([matches |-> SelectSeq(compared, LAMBDA c : c.matches),
                    mismatches |-> SelectSeq(compared, LAMBDA c : ~c.matches),
                    unmapped_higher_gov_fields |->
                        Unmapped(hg, {field_mappings[k].hg_field : k \in 1..Len(field_mappings)}),
                    unmapped_supabase_fields |->
                        Unmapped(sb, {field_mappings[k].sb_field : k \in 1..Len(field_mappings)})])

\* compare_award_data (lines 263-498): the two fetches, the check that both
\* returned data, the comparison. args holds what the two sources answer.
compare_award_data_call ==
    /\ fn = "compare_award_data"
    /\ pc = "loop"
    /\ LET first(ok) == Request("query", 1, ok, args.higher_gov_data, MaxApiPageSize, <<>>)
           second(ok) == Request("query", 0, ok, <<args.supabase_data>>, 1, <<>>)
       IN  \E ok1, ok2 \in BOOLEAN :
            IF ~ok1
            THEN reqlog' = Append(reqlog, first(FALSE)) /\ Raise(HTTPError)
            ELSE /\ reqlog' = reqlog \o <<first(TRUE), second(ok2)>>
                 /\ IF ~ok2 THEN Raise(DatabaseError)
                    ELSE IF args.higher_gov_data = <<>> \/ DOMAIN args.supabase_data.items = {}
                    THEN Raise("ValueError")
                    ELSE \E results \in {ComparisonResults(args.higher_gov_data[1],
                                                             args.supabase_data)} :
                            IF results.exception # <<>> THEN Raise(results.exception[1])
                            ELSE Return(results.value)
    /\ UNCHANGED <<inputs, mismatches, store, now, offset, page_number, all_records, lookups,
                   first_result, history>>

\* The awards HigherGov answers with: each expected field present, absent,
\* None or of another shape.
HigherGovAwards ==
    { Dict({<<"award_id", PyStr("A1")>>, <<"category", PyStr("contract")>>}
           \cup awardee \cup total \cup extent) :
        awardee \in { {}, {<<"awardee", PyNone>>}, {<<"awardee", PyStr("ACME")>>},
                      {<<"awardee", Dict({})>>},
                      {<<"awardee", Dict({<<"uei", PyStr(" U1 ")>>, <<"cage_code", PyNone>>})>>},
                      {<<"awardee", PyList(<<PyStr("U1")>>)>>} },
        total \in { {}, {<<"total_dollars_obligated", PyInt("100")>>},
                    {<<"total_dollars_obligated", PyStr("100")>>} },
        extent \in { {}, {<<"extent_competed", PyStr("Not Competed")>>},
                     {<<"extent_competed", PyNone>>} } }

\* The award rows Supabase answers with; {} when there is no such piid.
SupabaseAwards ==
    { Dict(piid \cup uei \cup total \cup extent \cup transactions) :
        piid \in { {<<"piid", PyStr("A1")>>} },
        uei \in { {}, {<<"recipient_uei", PyNone>>}, {<<"recipient_uei", PyStr("U1")>>} },
        total \in { {}, {<<"total_obligation", PyFloat("100")>>} },
        extent \in { {}, {<<"extent_competed_description", PyStr("NOT COMPETED")>>} },
        transactions \in { {}, {<<"transactions",
                                  PyList(<<Dict({<<"action_date", PyStr("2024-01-01")>>})>>)>>} } }
    \cup {Dict({})}

CompareArgs ==
    { [higher_gov_data |-> <<hg>>, supabase_data |-> sb] :
        hg \in HigherGovAwards, sb \in SupabaseAwards }
    \cup { [higher_gov_data |-> <<>>, supabase_data |-> sb] : sb \in SupabaseAwards }

----------------------------------------------------------------------------
(* The loaders of the two reconciliation scripts, results_compre_Lawrence  *)
(* and schema_retrevie, and main of schema_retrevie. An identifier is the  *)
(* Python value the loader adds to the record's set.                       *)

\* if key in record and record[key]: ids.add(record[key])
AddIfTruthy(record, key) ==
    IF key \in DOMAIN record.items /\ Truthy(record.items[key])
    THEN {record.items[key]} ELSE {}

\* if key in record: ids.add(record[key])
AddIfPresent(record, key) ==
    IF key \in DOMAIN record.items THEN {record.items[key]} ELSE {}

\* if "history" in record: for hist in record["history"]: ... ; iterating
\* over None or a number raises TypeError.
\* truthy: the loader also tests the value (results_compre_Lawrence.py) or
\* only the key (schema_retrevie.py).
HistoryIds(record, truthy) ==
    IF "history" \notin DOMAIN record.items THEN Value({})
    ELSE LET entries == record.items["history"]
         IN  IF entries.type \in {"NoneType", "int", "float"} THEN Raises("TypeError")
             ELSE Value(UNION {IF truthy
                               THEN AddIfTruthy(entries.elems[k], "solicitationNumber")
                               ELSE AddIfPresent(entries.elems[k], "solicitationNumber") :
                                 k \in 1..Len(entries.elems)})

\* for record in records: ...; opportunities.append(ids) - each is the
\* outcome of the loop body for every record, in order.
LoadRecords(each) ==
    LET raised == SelectSeq(each, LAMBDA o : o.exception # <<>>)
    IN  IF raised # <<>> THEN Raises(raised[1].exception[1])
        ELSE Value([k \in 1..Len(each) |-> each[k].value])

\* results_compre_Lawrence.py, lines 4-27; the file is read as utf-8, so the
\* first header of a file with a byte order mark is '﻿Notice ID'.
load_csv_opportunities(rows) ==
    LoadRecords([k \in 1..Len(rows) |->
        Value(AddIfTruthy(rows[k], "Solicitation ID")
              \cup AddIfTruthy(rows[k], "Solicitation Title")
              \cup AddIfTruthy(rows[k], "\\ufeffNotice ID"))])

\* results_compre_Lawrence.py, lines 29-54.
load_results_opportunities(data) ==
    LoadRecords([k \in 1..Len(data) |->
        LET record == data[k]
            from_history == HistoryIds(record, TRUE)
        IN  IF from_history.exception # <<>> THEN from_history
            ELSE Value(AddIfTruthy(record, "solicitation_id")
                       \cup AddIfTruthy(record, "notice_id")
                       \cup AddIfTruthy(record, "title")
                       \cup from_history.value)])

\* schema_retrevie.py, lines 3-28: the records are data["results"] for a
\* dict, data for a list, [] for anything else.
load_highergov_opportunities(data) ==
    LET records == CASE data.type = "dict" ->
                           IF "results" \in DOMAIN data.items
                           THEN data.items["results"].elems ELSE <<>>
                     [] data.type = "list" -> data.elems
                     [] OTHER -> <<>>
    IN  LoadRecords([k \in 1..Len(records) |->
            Value(AddIfPresent(records[k], "source_id")
                  \cup AddIfPresent(records[k], "source_id_version"))])

\* schema_retrevie.py, lines 30-50.
schema_retrevie_load_results_opportunities(data) ==
    LoadRecords([k \in 1..Len(data) |->
        LET record == data[k]
            from_history == HistoryIds(record, FALSE)
        IN  IF from_history.exception # <<>> THEN from_history
            ELSE Value(AddIfPresent(record, "solicitation_id") \cup from_history.value)])

\* The function raises what the expression raised, or returns its value.
Finish(outcome) ==
    IF outcome.exception # <<>> THEN Raise(outcome.exception[1]) ELSE Return(outcome.value)

load_csv_opportunities_call ==
    /\ fn = "load_csv_opportunities"
    /\ pc = "loop"
    /\ Finish(load_csv_opportunities(args.rows))
    /\ UNCHANGED <<inputs, mismatches, store, now, offset, page_number, all_records, lookups,
                   first_result, reqlog, history>>

load_results_opportunities_call ==
    /\ fn = "load_results_opportunities"
    /\ pc = "loop"
    /\ Finish(load_results_opportunities(args.data))
    /\ UNCHANGED <<inputs, mismatches, store, now, offset, page_number, all_records, lookups,
                   first_result, reqlog, history>>

\* schema_retrevie.main (lines 63-96): both files are loaded, each collection
\* is checked against the other, the report is printed.
schema_retrevie_main ==
    /\ fn = "schema_retrevie"
    /\ pc = "loop"
    /\ LET highergov == load_highergov_opportunities(args.highergov_data)
           results == schema_retrevie_load_results_opportunities(args.results_data)
       IN  IF highergov.exception # <<>> THEN Raise(highergov.exception[1])
           ELSE IF results.exception # <<>> THEN Raise(results.exception[1])
           ELSE LET highergov_ops == highergov.value
                    results_ops == results.value
                    mismatch_records_highergov == Unmatched(highergov_ops, results_ops)
                    mismatch_records_results_ == Unmatched(results_ops, highergov_ops)
                IN  Return([ highergov_ops |-> highergov_ops,
                             results_ops |-> results_ops,
                             mismatches_highergov |-> Len(mismatch_records_highergov),
                             mismatches_results |-> Len(mismatch_records_results_),
                             total_mismatches |-> Len(mismatch_records_highergov)
                                                  + Len(mismatch_records_results_),
                             mismatch_records_highergov |-> mismatch_records_highergov,
                             mismatch_records_results |-> mismatch_records_results_ ])
    /\ UNCHANGED <<inputs, mismatches, store, now, offset, page_number, all_records, lookups,
                   first_result, reqlog, history>>

\* The lists of at most MaxOps of the given records.
Lists(records) == UNION { [1..n -> records] : n \in 0..MaxOps }

\* Rows of the CSV export: a column is there or not, a cell is a string, ''
\* or (in a short row) None.
CsvRows ==
    { Dict({<<"Solicitation ID", PyStr("X1")>>, <<"Solicitation Title", PyStr("Y1")>>,
            <<"\\ufeffNotice ID", PyStr("X2")>>}),
      Dict({<<"Solicitation ID", PyStr("")>>, <<"Solicitation Title", PyStr("Y1")>>,
            <<"\\ufeffNotice ID", PyStr("")>>}),
      Dict({<<"Notice ID", PyStr("X2")>>, <<"Solicitation ID", PyStr("X1")>>}),
      Dict({<<"Solicitation ID", PyStr("")>>, <<"Solicitation Title", PyNone>>,
            <<"\\ufeffNotice ID", PyNone>>}),
      Dict({<<"Solicitation Title", PyStr("Y1")>>}) }

\* Records of the results JSON file.
ResultsRecords ==
    { Dict({}),
      Dict({<<"solicitation_id", PyStr("X1")>>}),
      Dict({<<"solicitation_id", PyNone>>, <<"notice_id", PyStr("X2")>>}),
      Dict({<<"solicitation_id", PyStr("")>>, <<"title", PyStr("")>>}),
      Dict({<<"solicitation_id", PyNone>>}),
      Dict({<<"title", PyStr("Y1")>>, <<"history", PyList(<<>>)>>}),
      Dict({<<"history", PyList(<<Dict({<<"solicitationNumber", PyStr("X1")>>}), Dict({})>>)>>}),
      Dict({<<"solicitation_id", PyStr("X2")>>,
            <<"history", PyList(<<Dict({<<"solicitationNumber", PyNone>>}),
                                  Dict({<<"solicitationNumber", PyStr("")>>})>>)>>}),
      Dict({<<"notice_id", PyStr("X2")>>, <<"history", PyNone>>}) }

\* Records of the HigherGov API file.
HigherGovRecords ==
    { Dict({}),
      Dict({<<"source_id", PyStr("X1")>>, <<"source_id_version", PyStr("X2")>>}),
      Dict({<<"source_id", PyNone>>}),
      Dict({<<"source_id", PyStr("")>>}),
      Dict({<<"source_id_version", PyStr("X1")>>}) }

\* The HigherGov API file: a list of records, the same wrapped in a dict, a
\* dict without "results", another JSON value.
HigherGovFiles ==
    {PyList(l) : l \in Lists(HigherGovRecords)}
    \cup {Dict({<<"results", PyList(l)>>}) : l \in Lists(HigherGovRecords)}
    \cup {Dict({<<"count", PyInt("0")>>}), PyStr("X1")}

LoaderFunctions == {"load_csv_opportunities", "load_results_opportunities", "schema_retrevie"}

LoaderArgs(f) ==
    CASE f = "load_csv_opportunities" -> {[rows |-> l] : l \in Lists(CsvRows)}
      [] f = "load_results_opportunities" -> {[data |-> l] : l \in Lists(ResultsRecords)}
      [] f = "schema_retrevie" ->
            { [highergov_data |-> h, results_data |-> r] :
                h \in HigherGovFiles, r \in Lists(ResultsRecords) }

----------------------------------------------------------------------------
(* main() of award_table_filter.py and of table_filter_Lawrence.py: the    *)
(* environment is read, the client is created, the script's query is       *)
(* fetched with get_filtered_awards / get_filtered_notices and saved.      *)

\* os.getenv gives None (here <<>>) for a variable that is not set.
Environments ==
    { [SUPABASE_URL |-> u, SUPABASE_KEY |-> k] :
        u \in {<<>>, <<"">>, <<"https://project.supabase.co">>},
        k \in {<<>>, <<"">>, <<"key">>} }

\* not value, for an optional string.
Missing(value) == value = <<>> \/ value = <<"">>

\* if not SUPABASE_URL or not SUPABASE_KEY
MissingConfiguration(e) == Missing(e.SUPABASE_URL) \/ Missing(e.SUPABASE_KEY)

\* The query of award_table_filter.main, over the values of the model's table.
MainAwardsQuery ==
    [EmptyAwardsQuery EXCEPT !.INCLUDE_NAICS = <<"541511", "541512", "928110">>,
                             !.POTENTIAL_END_DATE_START = <<10>>,
                             !.POTENTIAL_END_DATE_END = <<12>>,
                             !.EXCLUDE_EXTENT_COMPETED = <<"NOT AVAILABLE FOR COMPETITION",
                                                           "NOT COMPETED">>,
                             !.AMOUNT_OBLIGATED_MINIMUM = <<100>>,
                             !.KEYWORD_QUERY = <<"radar">>]

\* The arguments of table_filter_Lawrence.main, over the values of the model's
\* table; main passes [] for the other lists and "" for keyword_query.
MainNoticesArgs ==
    [DefaultNoticesArgs EXCEPT !.include_naics = <<"541511", "541512">>,
                               !.exclude_solicitation_types = <<"s", "a">>,
                               !.exclude_set_aside_ids = <<"16">>,
                               !.include_organization_keys = <<"300">>]

MainFunctions == {"get_filtered_awards", "get_filtered_notices"}

MainArgs(f) == IF f = "get_filtered_awards" THEN {MainAwardsQuery} ELSE {MainNoticesArgs}

\* The environments a run starts in: <<>> when fn is called directly.
EnvsOf(f) ==
    {<<>>} \cup (IF f \in MainFunctions THEN {<<e>> : e \in Environments} ELSE {})

\* Lines 141-148 (award_table_filter.py) and 136-143 (table_filter_Lawrence.py).
main_getenv ==
    /\ pc = "main"
    /\ IF MissingConfiguration(env[1])
       THEN Raise("ValueError")
       ELSE pc' = (IF fn = "get_filtered_awards" THEN "lookup_include" ELSE "loop")
            /\ UNCHANGED <<ret, error>>
    /\ UNCHANGED <<inputs, mismatches, store, now, offset, page_number, all_records, lookups,
                   first_result, reqlog, history>>

----------------------------------------------------------------------------
(* The runs of the model.                                                  *)

\* The functions that read none of the model's tables.
Tableless == {"results_compre_Lawrence", "compare_award_data", "load_csv_opportunities",
              "load_results_opportunities", "schema_retrevie"}

Functions ==
    RangeFunctions \cup HigherGovFunctions
    \cup {"get_all_opportunities_for_searchid", "get_filtered_opportunities",
          "get_all_filtered_opportunities", "results_compre_Lawrence"}
    \cup LookupFunctions \cup {"compare_award_data"} \cup LoaderFunctions

ArgsOf(f) ==
    CASE f = "get_filtered_awards"  -> AwardsQueries
      [] f = "get_filtered_notices" -> NoticesArgs
      [] f = "test2"                -> {<<>>}
      [] f \in HigherGovFunctions   -> HigherGovArgs
      [] f = "get_all_opportunities_for_searchid" -> SearchIdArgs
      [] f = "get_filtered_opportunities" -> OpportunityArgs
      [] f = "get_all_filtered_opportunities" -> AllOpportunityArgs
      [] f = "results_compre_Lawrence" -> ReconciliationArgs
      [] f \in LookupFunctions -> LookupArgs(f)
      [] f = "compare_award_data" -> CompareArgs
      [] f \in LoaderFunctions -> LoaderArgs(f)

\* Other writers are explored against the runs whose query selects the whole
\* table, where a position in the table is a position in the result.
WholeTable(f, a) ==
    \/ f = "get_filtered_awards" /\ a = EmptyAwardsQuery
    \/ f = "get_filtered_notices" /\ a = [DefaultNoticesArgs EXCEPT !.active = FALSE]
    \/ f = "test2"

FirstStep(f) ==
    CASE f = "get_filtered_awards" -> "lookup_include"
      [] f \in HigherGovFunctions -> "validate"
      [] f = "get_all_filtered_opportunities" -> "first_page"
      [] f = "results_compre_Lawrence" -> "mismatch_records_csv"
      [] OTHER -> "loop"

Init ==
    /\ fn \in Functions
    /\ env \in EnvsOf(fn)
    /\ args \in (IF env = <<>> THEN ArgsOf(fn) ELSE MainArgs(fn))
    /\ \E n \in 0..(IF fn \in Tableless THEN 0 ELSE MaxRows) :
          store = [i \in 1..n |-> i]
    /\ concurrent \in {c \in BOOLEAN : c => WholeTable(fn, args)}
    /\ pc = (IF env = <<>> THEN FirstStep(fn) ELSE "main")
    /\ now = 0
    /\ offset = 0
    /\ page_number = 1
    /\ all_records = <<>>
    /\ fpds_codes_include = <<>>
    /\ fpds_codes_exclude = <<>>
    /\ ret = <<>>
    /\ error = <<>>
    /\ first_result = <<>>
    /\ first_page = <<>>
    /\ mismatch_records_csv = <<>>
    /\ mismatch_records_results = <<>>
    /\ reqlog = <<>>
    /\ nwrites = 0
    /\ writesBefore = {}
    /\ stable = Range(store)

Next ==
    \/ get_filtered_awards_lookup_include
    \/ get_filtered_awards_lookup_exclude
    \/ get_filtered_awards_page
    \/ get_filtered_notices_page
    \/ test2_page
    \/ highergov_validate
    \/ highergov_get_all_awards_page
    \/ highergov_get_all_opportunities_page
    \/ refetch_with_half_page_size
    \/ get_all_opportunities_for_searchid_page
    \/ get_filtered_opportunities_call
    \/ get_all_filtered_opportunities_first_page
    \/ get_all_filtered_opportunities_next_page
    \/ main_mismatch_records_csv
    \/ main_mismatch_records_results
    \/ main_report
    \/ get_award_by_piid_call
    \/ get_opportunity_by_solicitation_id_call
    \/ get_naics_id_by_code_call
    \/ get_psc_id_by_code_call
    \/ call_endpoint_call
    \/ compare_award_data_call
    \/ load_csv_opportunities_call
    \/ load_results_opportunities_call
    \/ schema_retrevie_main
    \/ main_getenv
    \/ Tick
    \/ WriterInsert
    \/ WriterDelete

Spec == Init /\ [][Next]_vars

\* The program runs on: a fetch whose next step is enabled takes it.
FairSpec == Spec /\ WF_vars(Next)

----------------------------------------------------------------------------
(* Properties.                                                             *)

Returned == pc = "done" /\ ret # <<>>

\* The page requests of the run, and the last request of any kind.
Pages == SelectSeq(reqlog, LAMBDA r : r.kind = "page")
LastRequest == reqlog[Len(reqlog)]

\* What the store selects for the run's query with deadline cutoff t.
MatchingAt(t) ==
    CASE fn = "get_filtered_awards"  -> AwardsMatching
      [] fn = "get_filtered_notices" -> NoticesMatching(t)
      [] fn = "test2"                -> store

\* Every page request of the run carried the same deadline cutoff.
SameCutoff == \A j, k \in 1..Len(Pages) : Pages[j].cutoff = Pages[k].cutoff

\* C1: on a table no writer touches during the run, a range-paginated fetch
\* (get_filtered_awards, get_filtered_notices, the test2.py loop) returns
\* exactly the rows the store selects for the query, each once, in the store's
\* order - here read in the fetch's favour: the result of the query as the
\* store answers it at some instant of the run.
C1_RangeFetchReturnsStoreResult ==
    (fn \in RangeFunctions /\ Returned /\ nwrites = 0)
        => \E t \in 0..now : ret[1] = MatchingAt(t)

\* The part of C1 the code keeps: with one cutoff for the whole run (always so
\* for get_filtered_awards, test2.py and active = False) the result is the
\* store's.
RangeFetchCompleteUnderOneCutoff ==
    (fn \in RangeFunctions /\ Returned /\ nwrites = 0 /\ SameCutoff)
        => ret[1] = MatchingAt(now)

\* C6: a range-style fetch stops at the first request that returns zero rows
\* and never earlier: an empty page is the last request of a run and ends it,
\* a run that returned ended on an empty page, and for a result of N rows that
\* stays the same over the run exactly ceil(N / limit) + 1 requests are issued.
C6_RangeFetchStopsAtFirstEmptyPage ==
    fn \in RangeFunctions =>
        /\ \A k \in 1..Len(reqlog) :
              (reqlog[k].kind = "page" /\ reqlog[k].ok /\ reqlog[k].n = 0)
                  => (k = Len(reqlog) /\ pc = "done")
        /\ Returned => (LastRequest.kind = "page" /\ LastRequest.ok /\ LastRequest.n = 0)
        /\ (Returned /\ nwrites = 0 /\ SameCutoff)
              => Len(Pages) = CeilDiv(Len(MatchingAt(now)), limit) + 1

\* A run that went on after a short, non-empty page and returned.
C6_Witness ==
    /\ fn \in RangeFunctions
    /\ Returned
    /\ nwrites = 0
    /\ Len(Pages) >= 3
    /\ Pages[Len(Pages) - 1].n \in 1..(limit - 1)

\* C9: writes by another writer between two page requests go undetected: the
\* fetch raises only when a request fails and otherwise returns normally; a
\* returned result holds a row twice only after an insert before the cursor,
\* and lacks a row that was in the table during the whole run only after a
\* delete before the cursor (the witness is a run where both happen).
C9_ConcurrentWritesGoUndetected ==
    (fn \in RangeFunctions /\ concurrent) =>
        /\ pc = "raised" => ~LastRequest.ok
        /\ (Returned /\ ~NoDup(ret[1])) => "insert" \in writesBefore
        /\ (Returned /\ ~(stable \subseteq Range(ret[1]))) => "delete" \in writesBefore

\* A fetch that returned normally with one row twice and without a row that
\* was in the table from the first request to the last.
C9_Witness ==
    /\ fn \in {"get_filtered_awards", "get_filtered_notices"}
    /\ concurrent
    /\ Returned
    /\ ~NoDup(ret[1])
    /\ ~(stable \subseteq Range(ret[1]))

\* C10: with an AwardsQuery whose fields are all unset, get_filtered_awards
\* adds no filter to a page request, issues no organizations lookup, and (on a
\* table no writer touches) returns the whole awards table.
C10_UnsetQueryReturnsWholeTable ==
    (fn = "get_filtered_awards" /\ args = EmptyAwardsQuery) =>
        /\ AwardsFilters(args, fpds_codes_include, fpds_codes_exclude) = <<>>
        /\ \A k \in 1..Len(reqlog) : reqlog[k].kind = "page"
        /\ (Returned /\ nwrites = 0) => ret[1] = store

\* The unset query returned a table of more than one page.
C10_Witness ==
    /\ fn = "get_filtered_awards"
    /\ args = EmptyAwardsQuery
    /\ Returned
    /\ nwrites = 0
    /\ Len(store) > limit
    /\ ret[1] = store

\* C2: for an unchanged data set, highergov_get_all_awards and
\* highergov_get_all_opportunities return the same set of records with page
\* size P and with page size P / 2 (both in 1..100).
C2_HalfPageSizeSameRecords ==
    (fn \in HigherGovFunctions /\ Returned /\ first_result # <<>>)
        => Range(ret[1]) = Range(first_result[1])

\* Both fetches returned, the second after three requests or more.
C2_Witness ==
    /\ fn \in HigherGovFunctions
    /\ Returned
    /\ first_result # <<>>
    /\ Len(reqlog) >= 3
    /\ Len(first_result[1]) > 2 * args.page_size
    /\ Range(ret[1]) = Range(store)

\* The notices get_filtered_opportunities is asked for: filtered and latest.
Matching == FilteredAndLatest(args, now)

\* C3: with max_pages = None, get_all_filtered_opportunities returns every
\* filtered-and-latest notice: len(data) is their number and is the reported
\* count, for every page_size >= 1, with or without naics_codes / psc_codes.
C3_AllPagesReturnEveryOpportunity ==
    (fn = "get_all_filtered_opportunities" /\ Returned /\ args.max_pages = <<>>)
        => /\ Len(ret[1].data) = Len(Matching)
           /\ ret[1].count = Len(ret[1].data)

\* The part of C3 the code keeps: without naics_codes and psc_codes every
\* filtered-and-latest notice is returned, and the count is their number.
AllPagesReturnedWithoutCodes ==
    (/\ fn = "get_all_filtered_opportunities" /\ Returned /\ args.max_pages = <<>>
     /\ args.naics_codes = <<>> /\ args.psc_codes = <<>>)
        => /\ Len(ret[1].data) = Len(Matching)
           /\ ret[1].count = Len(ret[1].data)

\* C4: the count and total_pages get_filtered_opportunities returns are the
\* number of matching records and ceil(count / page_size), whatever page is
\* requested and whether or not naics_codes / psc_codes are supplied.
C4_CountAndTotalPagesAreTotals ==
    \A k \in 1..Len(reqlog) :
        (reqlog[k].kind = "call" /\ reqlog[k].ok)
            => /\ reqlog[k].count = Len(Matching)
               /\ reqlog[k].total_pages = CeilDiv(Len(Matching), reqlog[k].size)

\* The part of C4 the code keeps: without naics_codes and psc_codes.
CountIsTotalWithoutCodes ==
    \A k \in 1..Len(reqlog) :
        (/\ reqlog[k].kind = "call" /\ reqlog[k].ok
         /\ args.naics_codes = <<>> /\ args.psc_codes = <<>>)
            => /\ reqlog[k].count = Len(Matching)
               /\ reqlog[k].total_pages = CeilDiv(Len(Matching), reqlog[k].size)

\* C5: highergov_get_all_awards and highergov_get_all_opportunities stop after
\* the first page with fewer than page_size records and request nothing after
\* it, every earlier page was full, and when the N records are a multiple of
\* page_size there is one more request, for an empty page, and N records are
\* returned.
C5_ApiFetchStopsAfterFirstShortPage ==
    fn \in HigherGovFunctions =>
        /\ \A k \in 1..Len(reqlog) :
              (reqlog[k].ok /\ reqlog[k].n < reqlog[k].size)
                  => (k = Len(reqlog) /\ pc = "done")
        /\ Returned =>
              /\ LastRequest.ok /\ LastRequest.n < LastRequest.size
              /\ \A k \in 1..(Len(reqlog) - 1) : reqlog[k].n = reqlog[k].size
        /\ (Returned /\ args.page_size >= 1 /\ Len(store) % args.page_size = 0)
              => /\ Len(reqlog) = (Len(store) \div args.page_size) + 1
                 /\ LastRequest.n = 0
                 /\ Len(ret[1]) = Len(store)

\* A fetch over two full pages that needed a third, empty one.
C5_Witness ==
    /\ fn \in HigherGovFunctions
    /\ Returned
    /\ args.page_size >= 2
    /\ Len(store) = 2 * args.page_size
    /\ Len(reqlog) = 3
    /\ LastRequest.n = 0
    /\ ret[1] = store

Finished == pc \in {"done", "raised"}

OnlyLoopsWithoutExitMeetTheBound ==
    (pc \notin {"done", "raised"} /\ Len(reqlog) >= MaxRequests)
        => (fn \in HigherGovFunctions /\ args.page_size < 1)

\* Such a loop is left by no step but a failed request: it never returns,
\* however many requests it is given.
NoReturnBelowOne ==
    [][(fn \in HigherGovFunctions /\ pc = "loop" /\ args.page_size < 1)
          => pc' \in {"loop", "raised"}]_vars

\* The part of C7 the code keeps: every other loop eventually finishes.
FetchTerminatesWithPositivePageSize ==
    (fn \in HigherGovFunctions => args.page_size >= 1) ~> Finished

\* The functions that fetch pages: the loops, the paged query of
\* get_filtered_opportunities and the single GET of call_endpoint.
PageFetchers ==
    RangeFunctions \cup HigherGovFunctions
    \cup {"get_all_opportunities_for_searchid", "get_filtered_opportunities",
          "get_all_filtered_opportunities", "call_endpoint"}

\* C8: when a page request fails the fetch raises and returns nothing: the
\* failed request is the last one of the run, the run ends raised with an
\* exception for its caller and with no return value, whatever the earlier
\* pages accumulated.
C8_FailedRequestAbortsFetch ==
    fn \in PageFetchers =>
        /\ \A k \in 1..Len(reqlog) :
              ~reqlog[k].ok => (k = Len(reqlog) /\ pc = "raised")
        /\ pc = "raised" => (ret = <<>> /\ error # <<>>)

\* A request failed after earlier pages had been accumulated.
C8_Witness ==
    /\ pc = "raised"
    /\ Len(reqlog) >= 2
    /\ ~LastRequest.ok
    /\ all_records # <<>>
    /\ ret = <<>>

\* The values of column col in the rows a fetch returned.
AwardValues(col) == {AwardRow(i)[col] : i \in Range(ret[1])}
NoticeValues(col) == {NoticeRow(i)[col] : i \in Range(ret[1])}

\* Every value is one of the list L when L is supplied, and none is one of E.
Within(values, L, E) ==
    \A v \in values :
        /\ L # <<>> => (v # <<>> /\ v[1] \in Range(L))
        /\ v = <<>> \/ v[1] \notin Range(E)

\* C11: every record get_filtered_awards / get_filtered_notices returns has,
\* for NAICS, PSC, set-aside, extent competed and solicitation type, a value
\* of the inclusion list when one is supplied and no value of the exclusion
\* list (set-aside ids of notices are compared as the integers the code
\* converts them to).
C11_ReturnedRecordsRespectLists ==
    /\ (fn = "get_filtered_awards" /\ Returned) =>
          /\ Within(AwardValues("naics"), args.INCLUDE_NAICS, args.EXCLUDE_NAICS)
          /\ Within(AwardValues("product_or_service_code"), args.INCLUDE_PSC, args.EXCLUDE_PSC)
          /\ Within(AwardValues("type_set_aside"), args.INCLUDE_SET_ASIDE_IDS,
                    args.EXCLUDE_SET_ASIDE_IDS)
          /\ Within(AwardValues("extent_competed_description"),
                    args.INCLUDE_EXTENT_COMPETED, args.EXCLUDE_EXTENT_COMPETED)
    /\ (fn = "get_filtered_notices" /\ Returned) =>
          /\ Within(NoticeValues("naics"), args.include_naics, args.exclude_naics)
          /\ Within(NoticeValues("psc"), args.include_psc, args.exclude_psc)
          /\ Within(NoticeValues("type"), args.include_solicitation_types,
                    args.exclude_solicitation_types)
          /\ Within(NoticeValues("set_aside_id"), Ints(args.include_set_aside_ids),
                    Ints(args.exclude_set_aside_ids))

\* A fetch with an exclusion list of two values returned some rows and left
\* out rows of the table.
C11_Witness ==
    /\ fn \in {"get_filtered_awards", "get_filtered_notices"}
    /\ Returned
    /\ nwrites = 0
    /\ IF fn = "get_filtered_awards" THEN Len(args.EXCLUDE_NAICS) = 2
       ELSE Len(args.exclude_solicitation_types) = 2
    /\ ret[1] # <<>>
    /\ Len(ret[1]) < Len(store) - 1

\* What get_filtered_awards returns for aq on the current table when no
\* request fails and no writer interferes, and get_filtered_notices for a
\* with the cutoff t.
AwardsAnswer(aq) ==
    AwardsResult(store, AwardsFilters(aq, ResolveFpdsCodes(aq.INCLUDE_ORGANIZATION_KEYS),
                                          ResolveFpdsCodes(aq.EXCLUDE_ORGANIZATION_KEYS)))
NoticesAnswer(a, t) == NoticesResult(store, NoticesFilters(a, t))

\* The include / exclude pairs of the two fetchers; the first pair of each is
\* the one over aliased columns.
AwardsPairs ==
    { <<"INCLUDE_RECIPIENT_UEI", "EXCLUDE_RECIPIENT_UEI">>,
      <<"INCLUDE_NAICS", "EXCLUDE_NAICS">>, <<"INCLUDE_PSC", "EXCLUDE_PSC">>,
      <<"INCLUDE_SET_ASIDE_IDS", "EXCLUDE_SET_ASIDE_IDS">>,
      <<"INCLUDE_ORGANIZATION_KEYS", "EXCLUDE_ORGANIZATION_KEYS">>,
      <<"INCLUDE_EXTENT_COMPETED", "EXCLUDE_EXTENT_COMPETED">> }
NoticesPairs ==
    { <<"include_organization_keys", "exclude_organization_keys">>,
      <<"include_naics", "exclude_naics">>,
      <<"include_solicitation_types", "exclude_solicitation_types">>,
      <<"include_psc", "exclude_psc">>,
      <<"include_set_aside_ids", "exclude_set_aside_ids">> }
AliasedPairs ==
    { <<"INCLUDE_RECIPIENT_UEI", "EXCLUDE_RECIPIENT_UEI">>,
      <<"include_organization_keys", "exclude_organization_keys">> }

\* Every exclusion list of a comes with an inclusion list disjoint from it,
\* and there is one at least.
DisjointExclusions(a, pairs) ==
    /\ \A p \in pairs :
          a[p[2]] # <<>> => (a[p[1]] # <<>> /\ Range(a[p[1]]) \cap Range(a[p[2]]) = {})
    /\ \E p \in pairs : a[p[2]] # <<>>

\* a with the exclusion lists of the pairs unset.
InclusionsAlone(a, pairs) ==
    [f \in DOMAIN a |-> IF \E p \in pairs : p[2] = f THEN <<>> ELSE a[f]]

\* C12: for every include / exclude pair, the aliased ones included, a fetch
\* with an exclusion list disjoint from the inclusion list returns exactly
\* what it returns with the inclusion list alone.
C12_DisjointExclusionIsNoOp ==
    /\ (/\ fn = "get_filtered_awards" /\ Returned /\ nwrites = 0
        /\ DisjointExclusions(args, AwardsPairs))
          => ret[1] = AwardsAnswer(InclusionsAlone(args, AwardsPairs))
    /\ (/\ fn = "get_filtered_notices" /\ Returned /\ nwrites = 0 /\ SameCutoff
        /\ DisjointExclusions(args, NoticesPairs))
          => ret[1] = NoticesAnswer(InclusionsAlone(args, NoticesPairs), now)

\* The part of C12 the code keeps: the pairs over one column, the
\* organization keys of awards when the inclusion lookup resolves to a code.
DisjointExclusionIsNoOpOnOneColumn ==
    /\ (/\ fn = "get_filtered_awards" /\ Returned /\ nwrites = 0
        /\ DisjointExclusions(args, AwardsPairs \ AliasedPairs)
        /\ args.EXCLUDE_RECIPIENT_UEI = <<>>
        /\ args.INCLUDE_ORGANIZATION_KEYS # <<>> => fpds_codes_include # <<>>)
          => ret[1] = AwardsAnswer(InclusionsAlone(args, AwardsPairs))
    /\ (/\ fn = "get_filtered_notices" /\ Returned /\ nwrites = 0 /\ SameCutoff
        /\ DisjointExclusions(args, NoticesPairs \ AliasedPairs)
        /\ args.exclude_organization_keys = <<>>)
          => ret[1] = NoticesAnswer(InclusionsAlone(args, NoticesPairs), now)

\* Some run exercises the one-column case on a table with rows to return.
DisjointExclusionOnOneColumnRuns ==
    /\ fn = "get_filtered_awards" /\ Returned /\ nwrites = 0
    /\ DisjointExclusions(args, AwardsPairs \ AliasedPairs)
    /\ args.EXCLUDE_RECIPIENT_UEI = <<>>
    /\ Len(ret[1]) >= 2

\* The organizations lookups of the run.
Lookups == SelectSeq(reqlog, LAMBDA r : r.kind = "lookup")

\* An organization key list that is supplied and resolves to no fpds_code.
Unresolved(keys) ==
    /\ keys # <<>>
    /\ \A k \in 1..Len(Organizations) :
          Organizations[k].organization_key[1] \in Range(keys)
              => Organizations[k].fpds_code = <<>>

\* C13: when INCLUDE_ORGANIZATION_KEYS (or EXCLUDE_ORGANIZATION_KEYS) is
\* supplied and resolves to no fpds_code, get_filtered_awards returns what it
\* returns with that list unset; each supplied list is looked up once, before
\* the first page request.
C13_UnresolvedOrganizationsAddNoConstraint ==
    fn = "get_filtered_awards" =>
        /\ \A j, k \in 1..Len(reqlog) :
              (j < k /\ reqlog[k].kind = "lookup") => reqlog[j].kind = "lookup"
        /\ Len(Lookups) <= Cardinality({f \in {"INCLUDE_ORGANIZATION_KEYS",
                                               "EXCLUDE_ORGANIZATION_KEYS"} : args[f] # <<>>})
        /\ (pc = "loop" \/ Returned) =>
              Len(Lookups) = Cardinality({f \in {"INCLUDE_ORGANIZATION_KEYS",
                                                 "EXCLUDE_ORGANIZATION_KEYS"} : args[f] # <<>>})
        /\ (Returned /\ nwrites = 0 /\ Unresolved(args.INCLUDE_ORGANIZATION_KEYS))
              => ret[1] = AwardsAnswer([args EXCEPT !.INCLUDE_ORGANIZATION_KEYS = <<>>])
        /\ (Returned /\ nwrites = 0 /\ Unresolved(args.EXCLUDE_ORGANIZATION_KEYS))
              => ret[1] = AwardsAnswer([args EXCEPT !.EXCLUDE_ORGANIZATION_KEYS = <<>>])

\* A fetch whose only filter is an unresolved organization list returned the
\* whole table, of more than one page, after one lookup.
C13_Witness ==
    /\ fn = "get_filtered_awards"
    /\ Returned
    /\ \/ Unresolved(args.INCLUDE_ORGANIZATION_KEYS) /\ args.EXCLUDE_ORGANIZATION_KEYS = <<>>
       \/ Unresolved(args.EXCLUDE_ORGANIZATION_KEYS) /\ args.INCLUDE_ORGANIZATION_KEYS = <<>>
    /\ Len(Lookups) = 1
    /\ Len(store) > limit
    /\ ret[1] = store

\* The populated filters of the run's arguments: the fields that are not at
\* their unset value (None, an empty list, or active = False).
Unset(a) == IF fn = "get_filtered_awards" THEN EmptyAwardsQuery
            ELSE [DefaultNoticesArgs EXCEPT !.active = FALSE]
Populated(a) == {f \in DOMAIN a : a[f] # Unset(a)[f]}

\* a with the filter f alone.
Alone(a, f) == [g \in DOMAIN a |-> IF g = f THEN a[g] ELSE Unset(a)[g]]

\* What the fetch returns for a on the current table (cutoff: now).
Answer(a) == IF fn = "get_filtered_awards" THEN AwardsAnswer(a) ELSE NoticesAnswer(a, now)

\* The filters the run's query carries.
RunFilters ==
    IF fn = "get_filtered_awards"
    THEN AwardsFilters(args, fpds_codes_include, fpds_codes_exclude)
    ELSE NoticesFilters(args, now)

\* C14: the populated filters combine with AND: the records a fetch returns
\* are those returned with each populated filter alone, and the only filters
\* over more than one column are the OR over recipient_uei /
\* parent_recipient_uei and the OR over organization_key /
\* organization_level_1..7_key.
C14_FiltersCombineWithAnd ==
    fn \in {"get_filtered_awards", "get_filtered_notices"} =>
        /\ (Returned /\ nwrites = 0 /\ SameCutoff) =>
              ret[1] = SelectSeq(store, LAMBDA i :
                          \A f \in Populated(args) : i \in Range(Answer(Alone(args, f))))
        /\ \A k \in 1..Len(RunFilters) :
              IF RunFilters[k].op = "or"
              THEN RunFilters[k].cols \in {<<"recipient_uei", "parent_recipient_uei">>,
                                           OrganizationKeyColumns}
              ELSE Len(RunFilters[k].cols) = 1

\* A fetch with three filters or more returned fewer rows than each filter
\* alone selects, and at least one.
C14_Witness ==
    /\ fn \in {"get_filtered_awards", "get_filtered_notices"}
    /\ Returned /\ nwrites = 0 /\ SameCutoff
    /\ Cardinality(Populated(args)) >= 3
    /\ ret[1] # <<>>
    /\ \A f \in Populated(args) : Len(Answer(Alone(args, f))) > Len(ret[1])

\* A finished reconciliation, and the two collections it compared.
Reconciled == fn = "results_compre_Lawrence" /\ Returned
Reconciling == fn = "results_compre_Lawrence"

\* Identity Set a intersects some Identity Set of the collection others.
Intersects(a, others) == \E k \in 1..Len(others) : a \cap others[k] # {}

\* C15: find_match(op, others) is True exactly when some Identity Set of
\* others shares an identifier with op, and False for the empty list.
C15_FindMatchIsExistsIntersection ==
    Reconciling =>
        /\ \A k \in 1..Len(args.csv_ops) :
              find_match(args.csv_ops[k], args.results_ops)
                  <=> Intersects(args.csv_ops[k], args.results_ops)
        /\ \A k \in 1..Len(args.results_ops) :
              find_match(args.results_ops[k], args.csv_ops)
                  <=> Intersects(args.results_ops[k], args.csv_ops)
        /\ \A k \in 1..Len(args.csv_ops) : ~find_match(args.csv_ops[k], <<>>)

\* A reconciliation in which a record matched the second record of the other
\* collection but not the first, and another record matched none.
C15_Witness ==
    /\ Reconciled
    /\ Len(args.results_ops) = 2
    /\ \E k \in 1..Len(args.csv_ops) :
          /\ args.csv_ops[k] \cap args.results_ops[1] = {}
          /\ args.csv_ops[k] \cap args.results_ops[2] # {}
          /\ find_match(args.csv_ops[k], args.results_ops)
    /\ \E k \in 1..Len(args.csv_ops) :
          /\ args.csv_ops[k] # {}
          /\ ~find_match(args.csv_ops[k], args.results_ops)

\* C16: both unmatched lists are empty exactly when every Identity Set of
\* each collection intersects some Identity Set of the other.
C16_ReconciliationSymmetry ==
    Reconciled =>
        ((ret[1].mismatch_records_csv = <<>> /\ ret[1].mismatch_records_results = <<>>)
            <=> (/\ \A k \in 1..Len(args.csv_ops) :
                       Intersects(args.csv_ops[k], args.results_ops)
                 /\ \A k \in 1..Len(args.results_ops) :
                       Intersects(args.results_ops[k], args.csv_ops)))

\* Two different non-empty collections reconciled without a mismatch.
C16_Witness ==
    /\ Reconciled
    /\ Len(args.csv_ops) = 2 /\ args.results_ops # <<>>
    /\ Range(args.csv_ops) \cap Range(args.results_ops) = {}
    /\ ret[1].mismatch_records_csv = <<>>
    /\ ret[1].mismatch_records_results = <<>>

\* C17: reconciling a collection against an identical one reports no
\* unmatched record in either direction and total mismatches 0.
C17_IdenticalCollectionsHaveNoMismatch ==
    (Reconciled /\ args.csv_ops = args.results_ops) =>
        /\ ret[1].mismatch_records_csv = <<>>
        /\ ret[1].mismatch_records_results = <<>>
        /\ ret[1].total_mismatches = 0

\* C17 as the code keeps it: a collection reconciled against an identical one
\* has as unmatched records, in both directions, exactly its records with an
\* empty Identity Set; when it has none the total is 0.
C17_IdenticalCollectionsMismatchOnlyEmptySets ==
    (Reconciled /\ args.csv_ops = args.results_ops) =>
        /\ ret[1].mismatch_records_csv = SelectSeq(args.csv_ops, LAMBDA op : op = {})
        /\ ret[1].mismatch_records_results = ret[1].mismatch_records_csv
        /\ ({} \notin Range(args.csv_ops)) => ret[1].total_mismatches = 0

\* A collection of two different non-empty records reconciled against itself.
C17_Witness ==
    /\ Reconciled
    /\ args.csv_ops = args.results_ops
    /\ Len(args.csv_ops) = 2
    /\ args.csv_ops[1] # args.csv_ops[2]
    /\ {} \notin Range(args.csv_ops)
    /\ ret[1].total_mismatches = 0

\* The number of records of s that are the empty Identity Set.
Empties(s) == Cardinality({k \in 1..Len(s) : s[k] = {}})

\* C18: a record whose Identity Set is empty is reported unmatched whatever
\* the other collection holds, and the reconciliation never raises.
C18_EmptyIdentitySetIsUnmatched ==
    Reconciling =>
        /\ pc # "raised" /\ error = <<>>
        /\ Returned =>
              /\ Empties(ret[1].mismatch_records_csv) = Empties(args.csv_ops)
              /\ Empties(ret[1].mismatch_records_results) = Empties(args.results_ops)

\* Both collections held an empty Identity Set, and one a non-empty one too.
C18_Witness ==
    /\ Reconciled
    /\ Empties(args.csv_ops) >= 1
    /\ Empties(args.results_ops) >= 1
    /\ Len(args.results_ops) = 2 /\ Empties(args.results_ops) = 1
    /\ Empties(ret[1].mismatch_records_csv) = Empties(args.csv_ops)

\* The records of s at the positions idx, in the order of s.
SubList(s, idx) ==
    [m \in 1..Cardinality(idx) |->
        s[CHOOSE k \in idx : Cardinality({j \in idx : j < k}) = m - 1]]

\* The positions of the records of ops that intersect no record of others.
UnmatchedPositions(ops, others) == {k \in 1..Len(ops) : ~Intersects(ops[k], others)}

\* C19: each reported list is the order-preserving sub-list, duplicates kept,
\* of the records of its collection that match nothing in the other one; the
\* total is the sum of the two lengths, between 0 and |A| + |B|; and
\* A = [{X1}, {X2}], B = [{X1, Y1}] gives [{X2}], [] and total 1.
C19_ReportIsSubListsAndTheirSum ==
    Reconciled =>
        /\ ret[1].mismatch_records_csv
              = SubList(args.csv_ops, UnmatchedPositions(args.csv_ops, args.results_ops))
        /\ ret[1].mismatch_records_results
              = SubList(args.results_ops, UnmatchedPositions(args.results_ops, args.csv_ops))
        /\ ret[1].mismatches_csv = Len(ret[1].mismatch_records_csv)
        /\ ret[1].mismatches_results = Len(ret[1].mismatch_records_results)
        /\ ret[1].total_mismatches = ret[1].mismatches_csv + ret[1].mismatches_results
        /\ ret[1].total_mismatches \in 0..(Len(args.csv_ops) + Len(args.results_ops))
        /\ (args.csv_ops = << {"X1"}, {"X2"} >> /\ args.results_ops = << {"X1", "Y1"} >>)
              => /\ ret[1].mismatch_records_csv = << {"X2"} >>
                 /\ ret[1].mismatch_records_results = <<>>
                 /\ ret[1].total_mismatches = 1

\* The same unmatched record reported twice, in a total of three mismatches.
C19_Witness ==
    /\ Reconciled
    /\ Len(ret[1].mismatch_records_csv) = 2
    /\ ret[1].mismatch_records_csv[1] = ret[1].mismatch_records_csv[2]
    /\ ret[1].mismatch_records_csv[1] # {}
    /\ ret[1].total_mismatches = 3

\* The index of a collection: all the identifiers of its records.
IdentifierIndex(others) == UNION Range(others)

\* C20: the lists the pairwise scan produces are those an indexed
\* reconciliation produces, which keeps a record when its Identity Set holds
\* no identifier of the other collection's index.
C20_ScanEqualsIndexedLookup ==
    Reconciled =>
        /\ ret[1].mismatch_records_csv
              = SelectSeq(args.csv_ops,
                          LAMBDA op : op \cap IdentifierIndex(args.results_ops) = {})
        /\ ret[1].mismatch_records_results
              = SelectSeq(args.results_ops,
                          LAMBDA op : op \cap IdentifierIndex(args.csv_ops) = {})

\* A record with two identifiers, found in the index through records that
\* hold one each, beside an unmatched record.
C20_Witness ==
    /\ Reconciled
    /\ Len(args.results_ops) = 2
    /\ \E k \in 1..Len(args.csv_ops) :
          /\ Cardinality(args.csv_ops[k]) = 2
          /\ args.csv_ops[k] \subseteq IdentifierIndex(args.results_ops)
          /\ args.csv_ops[k] \cap args.results_ops[1] # {}
          /\ args.csv_ops[k] \cap args.results_ops[2] # {}
    /\ Len(ret[1].mismatch_records_csv) = 1

----------------------------------------------------------------------------
(* The page cap of get_all_opportunities_for_searchid (max_page_number)    *)
(* and of get_all_filtered_opportunities (max_pages).                      *)

Capped == fn \in {"get_all_opportunities_for_searchid", "get_all_filtered_opportunities"}

\* The cap the run was given; <<>> when max_pages is None.
Cap == IF fn = "get_all_opportunities_for_searchid" THEN <<args.max_page_number>>
       ELSE args.max_pages

\* The pages the run has requested so far.
PageRequests == SelectSeq(reqlog, LAMBDA r : r.kind \in {"page", "call"})

IsPrefix(s, t) == Len(s) <= Len(t) /\ SubSeq(t, 1, Len(s)) = s

\* The records the run returned.
ReturnedRecords ==
    IF fn = "get_all_filtered_opportunities" THEN ret[1].data ELSE ret[1]

\* The records the same fetch returns without a cap: every page the API has,
\* every page the first call of get_filtered_opportunities counts.
Uncapped ==
    IF fn = "get_all_opportunities_for_searchid" THEN store
    ELSE LET first == get_filtered_opportunities(args, 1, args.page_size, now)
             n == IF first.total_pages >= 1 THEN first.total_pages ELSE 1
         IN  Concat([p \in 1..n |->
                       get_filtered_opportunities(args, p, args.page_size, now).data])

\* C21: a run that was given a page cap (any cap >= 0) requests no more pages
\* than the cap, and the records it returns are a prefix of the records the
\* uncapped fetch returns.
C21_CapBoundsPagesRequested ==
    (Capped /\ Cap # <<>> /\ Cap[1] >= 0) =>
        /\ Len(PageRequests) <= Cap[1]
        /\ (Returned => IsPrefix(ReturnedRecords, Uncapped))

\* The same with a cap of at least one page.
CapOfAtLeastOneBoundsPagesRequested ==
    (Capped /\ Cap # <<>> /\ Cap[1] >= 1) =>
        /\ Len(PageRequests) <= Cap[1]
        /\ (Returned => IsPrefix(ReturnedRecords, Uncapped))

\* A cap of one or two pages cut a fetch short of the uncapped result.
CapOfAtLeastOneCutsFetch ==
    /\ Capped /\ Cap # <<>> /\ Cap[1] >= 1
    /\ Returned
    /\ Len(PageRequests) = Cap[1]
    /\ Len(ReturnedRecords) < Len(Uncapped)

\* A cap of zero pages under which the fetch returned every page.
CapOfZeroFetchesEveryPage ==
    /\ fn = "get_all_filtered_opportunities" /\ Cap = <<0>>
    /\ Returned
    /\ Len(PageRequests) >= 2

----------------------------------------------------------------------------
(* Errors of the backing store and of the API.                             *)

\* A request of the run failed.
RequestFailed == \E k \in 1..Len(reqlog) : ~reqlog[k].ok

\* The error the failed request raised inside the function.
RaisedInside == IF fn = "call_endpoint" THEN HTTPError ELSE StoreError

\* The run aborted and its caller sees the error the failed request raised.
SurfacedUnmodified == pc = "raised" /\ error = <<RaisedInside>>

\* C22: in call_endpoint, get_award_by_piid, get_opportunity_by_solicitation_id,
\* get_naics_id_by_code, get_psc_id_by_code and get_filtered_opportunities a
\* failed request aborts the call and reaches the caller as the error it
\* raised: it is neither swallowed nor replaced by another exception.
C22_ErrorsReachCallerUnmodified ==
    (fn \in LookupFunctions \cup {"get_filtered_opportunities"} /\ RequestFailed)
        => SurfacedUnmodified

\* The same for the two functions that do not catch, or catch and re-raise.
ErrorsReachCallerUnmodifiedWithoutHandler ==
    (fn \in {"call_endpoint", "get_filtered_opportunities"} /\ RequestFailed)
        => SurfacedUnmodified

ErrorReachedCallerUnmodified ==
    fn \in {"call_endpoint", "get_filtered_opportunities"} /\ RequestFailed /\ SurfacedUnmodified

\* A failed request of get_naics_id_by_code or get_psc_id_by_code after which
\* the function returned None.
ErrorSwallowed ==
    /\ fn \in {"get_naics_id_by_code", "get_psc_id_by_code"}
    /\ RequestFailed /\ pc = "done" /\ ret = << <<>> >> /\ error = <<>>

\* A failed request of get_award_by_piid or get_opportunity_by_solicitation_id
\* that reached the caller as another exception.
ErrorReplaced ==
    /\ fn \in {"get_award_by_piid", "get_opportunity_by_solicitation_id"}
    /\ RequestFailed /\ pc = "raised" /\ error = <<DatabaseError>>

----------------------------------------------------------------------------
(* Configuration errors.                                                   *)

\* The run was started with a configuration the code must reject: no API key
\* or a page size above 100, an identifier that is empty or not a string, a
\* Supabase variable that is not set or empty.
ConfigurationError ==
    \/ /\ fn \in HigherGovFunctions
       /\ (args.api_key = "" \/ args.page_size > 100)
    \/ /\ fn = "get_award_by_piid"
       /\ (args.piid.type # "str" \/ args.piid.text = "")
    \/ /\ fn = "get_opportunity_by_solicitation_id"
       /\ (args.solicitation_id.type # "str" \/ args.solicitation_id.text = "")
    \/ /\ env # <<>>
       /\ (env[1].SUPABASE_URL \in {<<>>, <<"">>} \/ env[1].SUPABASE_KEY \in {<<>>, <<"">>})

\* The run has not taken a step yet.
NotStarted == pc \in {"main", "validate"} \/ (fn \in LookupFunctions /\ pc = "loop")

\* C23: a run started with a configuration error issues no request at all,
\* neither HTTP nor database: its only step raises ValueError.
C23_ConfigurationErrorsBeforeIO ==
    ConfigurationError =>
        /\ reqlog = <<>>
        /\ \/ NotStarted /\ ret = <<>> /\ error = <<>>
           \/ pc = "raised" /\ ret = <<>> /\ error = <<"ValueError">>

\* get_award_by_piid was called with an identifier that is not a string, and
\* has raised.
C23_Witness ==
    /\ fn = "get_award_by_piid" /\ args.piid.type = "int" /\ args.piid.text = "7"
    /\ pc = "raised" /\ error = <<"ValueError">> /\ reqlog = <<>>

\* main() has raised for a missing SUPABASE_KEY; a fetcher has raised for a
\* page size above 100.
MainRaisedForMissingKey ==
    /\ env # <<>> /\ env[1].SUPABASE_URL = <<"https://project.supabase.co">>
    /\ env[1].SUPABASE_KEY = <<>>
    /\ pc = "raised" /\ error = <<"ValueError">> /\ reqlog = <<>>

FetcherRaisedForPageSize ==
    /\ fn \in HigherGovFunctions /\ args.api_key # "" /\ args.page_size > 100
    /\ pc = "raised" /\ error = <<"ValueError">> /\ reqlog = <<>>

----------------------------------------------------------------------------
(* Records that lack an expected field.                                    *)

\* The record has no value at the path: a key is missing at some depth, or
\* the value on the way is None or not a mapping.
RECURSIVE Lacks(_, _)
Lacks(obj, keys) ==
    /\ keys # <<>>
    /\ \/ obj.type # "dict"
       \/ Head(keys) \notin DOMAIN obj.items
       \/ Lacks(obj.items[Head(keys)], Tail(keys))

\* Both fetches of compare_award_data succeeded and returned a record.
Compared ==
    /\ fn = "compare_award_data" /\ Finished
    /\ Len(reqlog) = 2 /\ reqlog[1].ok /\ reqlog[2].ok
    /\ args.higher_gov_data # <<>> /\ DOMAIN args.supabase_data.items # {}

\* The entries of the comparison filed under the display name.
Filed(list, name) == Cardinality({k \in 1..Len(list) : list[k].field = name})

\* The identifier fields of a results record and the values they hold.
HeldBy(record) ==
    {record.items[key] : key \in DOMAIN record.items \cap {"solicitation_id", "notice_id", "title"}}
    \cup (IF "history" \in DOMAIN record.items /\ record.items["history"].type = "list"
          THEN LET entries == record.items["history"].elems
               IN  {entries[k].items["solicitationNumber"] :
                      k \in {j \in 1..Len(entries) : "solicitationNumber" \in DOMAIN entries[j].items}}
          ELSE {})

\* A results record whose history is there and is not a list.
HistoryNotIterable(record) ==
    "history" \in DOMAIN record.items /\ record.items["history"].type # "list"

RecordWithoutIdentifiersLoaded ==
    /\ fn = "load_results_opportunities" /\ pc = "done"
    /\ \E k \in 1..Len(args.data) : DOMAIN args.data[k].items = {} /\ ret[1][k] = {}

\* A results file with a record whose history is null: the loader raises.
NullHistoryRaises ==
    /\ fn = "load_results_opportunities" /\ pc = "raised" /\ error = <<"TypeError">>

----------------------------------------------------------------------------
(* The notices get_filtered_opportunities returns.                         *)

\* The latest_notice_id the solicitations table records for the notice's own
\* solicitation; <<>> when the notice has no solicitation or the solicitation
\* has no latest notice.
LatestOfOwnSolicitation(i) ==
    LET own == SelectSeq(Solicitations, LAMBDA sol :
                   sol.solicitation_id = NoticeRow(i).solicitation_id)
    IN  IF NoticeRow(i).solicitation_id = <<>> \/ own = <<>> THEN <<>>
        ELSE own[1].latest_notice_id

----------------------------------------------------------------------------
(* The Page Cursor.                                                        *)

\* The loops with a page number: page 1, 2, 3, ...
PageNumberLoops ==
    HigherGovFunctions
    \cup {"get_all_opportunities_for_searchid", "get_all_filtered_opportunities"}

\* The round trips after which the loop went on: successful, not the last of
\* a finished run.
NonFinalRoundTrips ==
    Cardinality({k \in 1..Len(PageRequests) :
                   PageRequests[k].ok /\ (k < Len(PageRequests) \/ pc = "loop")})

\* C26: in every fetch loop the cursor starts at offset 0 / page 1, has
\* advanced by exactly one page for each non-final successful round trip, and
\* the k-th request of the run carries the k-th page, so no page is requested
\* twice; in the range-style loops the offset is a multiple of the page size
\* and the accumulator is never longer than the offset.
C26_CursorAdvancesOnePagePerRoundTrip ==
    /\ fn \in RangeFunctions =>
        /\ offset = limit * NonFinalRoundTrips
        /\ offset % limit = 0
        /\ Len(all_records) <= offset
        /\ \A k \in 1..Len(PageRequests) : PageRequests[k].at = limit * (k - 1)
    /\ fn \in PageNumberLoops =>
        /\ page_number = 1 + NonFinalRoundTrips
        /\ \A k \in 1..Len(PageRequests) : PageRequests[k].at = k

\* A range-style fetch that returned after three round trips or more, and a
\* page-number fetch that did.
C26_Witness ==
    /\ fn \in RangeFunctions /\ Returned
    /\ Len(PageRequests) >= 3
    /\ offset = limit * (Len(PageRequests) - 1)
    /\ Len(all_records) < offset

CursorReachedPageThree ==
    /\ fn \in PageNumberLoops /\ Returned /\ page_number >= 3

----------------------------------------------------------------------------
(* The match relation.                                                     *)

\* a matches b: what find_match answers for a against the collection [b].
Matches(a, b) == find_match(a, <<b>>)

\* The record is in the list of unmatched records.
ReportedUnmatched(op, records) == op \in Range(records)

\* The collections that hold the record op among other records.
CollectionsWith(op) == {A \in Collections : op \in Range(A)}

\* C27: the match relation is symmetric and not transitive, and groups are
\* not merged: a record is reported unmatched exactly when its own Identity
\* Set intersects no Identity Set of the other collection, whatever other
\* records its own collection holds.
C27_MatchIsSymmetricNotTransitiveNeverMerged ==
    Reconciled =>
        /\ \A a \in Range(args.csv_ops), b \in Range(args.results_ops) :
              Matches(a, b) <=> Matches(b, a)
        /\ \E a, b, c \in SUBSET Identifiers :
              Matches(a, b) /\ Matches(b, c) /\ ~Matches(a, c)
        /\ \A op \in Range(args.csv_ops) :
              /\ ReportedUnmatched(op, ret[1].mismatch_records_csv)
                    <=> ~Intersects(op, args.results_ops)
              /\ \A A \in CollectionsWith(op) :
                    ReportedUnmatched(op, Unmatched(A, args.results_ops))
                        <=> ReportedUnmatched(op, ret[1].mismatch_records_csv)
        /\ \A op \in Range(args.results_ops) :
              /\ ReportedUnmatched(op, ret[1].mismatch_records_results)
                    <=> ~Intersects(op, args.csv_ops)
              /\ \A B \in CollectionsWith(op) :
                    ReportedUnmatched(op, Unmatched(B, args.csv_ops))
                        <=> ReportedUnmatched(op, ret[1].mismatch_records_results)

\* {X1} is reported unmatched although {X1, X2} of its own collection shares
\* X1 with it and matches {X2} of the other collection.
C27_Witness ==
    /\ Reconciled
    /\ args.csv_ops = << {"X1"}, {"X1", "X2"} >>
    /\ args.results_ops = << {"X2"} >>
    /\ ret[1].mismatch_records_csv = << {"X1"} >>
    /\ ret[1].mismatch_records_results = <<>>

----------------------------------------------------------------------------
(* The filter predicate of the page requests of one run.                   *)

\* The deadline cutoffs the page requests of the run carried, in order.
Cutoffs == [k \in 1..Len(Pages) |-> Pages[k].cutoff]

\* C28: within one run of get_filtered_notices and of get_filtered_awards
\* every page request carries the same filter predicate; with active = True
\* the response-deadline cutoff of page k is the one of page 1.
C28_EveryPageCarriesTheSamePredicate ==
    fn \in {"get_filtered_notices", "get_filtered_awards"} =>
        \A k \in 1..Len(Pages) : Cutoffs[k] = Cutoffs[1]

\* The part of C28 the code keeps: the pages of get_filtered_awards, and of
\* get_filtered_notices with active = False, carry no cutoff at all, and the
\* arguments and the resolved FPDS codes the predicate is built from do not
\* change while the loop runs.
PagesWithoutCutoffCarryTheSamePredicate ==
    (fn = "get_filtered_awards" \/ (fn = "get_filtered_notices" /\ ~args.active))
        => \A k \in 1..Len(Pages) : Cutoffs[k] = <<>>

PredicateInputsFixedInLoop ==
    [][pc = "loop" => UNCHANGED <<args, fpds_codes_include, fpds_codes_exclude>>]_vars

\* A run of get_filtered_notices with active = True whose second page was cut
\* with a later cutoff than its first.
LaterPageCarriesLaterCutoff ==
    /\ fn = "get_filtered_notices"
    /\ args.active
    /\ Len(Pages) >= 2
    /\ Cutoffs[1] = <<0>>
    /\ Cutoffs[2] = <<1>>

----------------------------------------------------------------------------
(* The same value in an inclusion list and in its exclusion list.          *)

\* The pair p of a holds a common value.
SharesValue(a, p) == Range(a[p[1]]) \cap Range(a[p[2]]) # {}

\* The pairs of this run's fetcher.
PairsOfRun ==
    CASE fn = "get_filtered_awards"  -> AwardsPairs
      [] fn = "get_filtered_notices" -> NoticesPairs
      [] OTHER                       -> {}

\* C29: with the same value in an inclusion list over aliased columns
\* (recipient_uei / parent_recipient_uei; organization_key /
\* organization_level_1..7_key) and in the corresponding exclusion list, the
\* fetch returns nothing.
C29_SameValueIncludedAndExcludedYieldsEmpty ==
    (/\ Returned
     /\ \E p \in PairsOfRun \cap AliasedPairs : SharesValue(args, p))
        => ret[1] = <<>>

\* The part of C29 the code keeps: the recipient UEI pair of
\* get_filtered_awards, whose exclusion covers both aliased columns.
SameUeiIncludedAndExcludedYieldsEmpty ==
    (/\ fn = "get_filtered_awards"
     /\ Returned
     /\ SharesValue(args, <<"INCLUDE_RECIPIENT_UEI", "EXCLUDE_RECIPIENT_UEI">>))
        => ret[1] = <<>>

\* And the pairs over one column.
SameValueInSingleColumnPairYieldsEmpty ==
    (/\ Returned
     /\ \E p \in PairsOfRun \ AliasedPairs :
           /\ p[1] # "INCLUDE_ORGANIZATION_KEYS"
           /\ SharesValue(args, p))
        => ret[1] = <<>>

\* A run of get_filtered_awards with U1 included and excluded returned
\* nothing from a table that holds U1 in both aliased columns.
SameUeiReturnedEmpty ==
    /\ fn = "get_filtered_awards"
    /\ Returned
    /\ SharesValue(args, <<"INCLUDE_RECIPIENT_UEI", "EXCLUDE_RECIPIENT_UEI">>)
    /\ \E k \in 1..Len(store) : AwardRow(store[k]).recipient_uei = <<"U1">>
    /\ \E k \in 1..Len(store) : AwardRow(store[k]).parent_recipient_uei = <<"U1">>
    /\ ret[1] = <<>>

\* A notice selected through organization_level_1_key survives the exclusion
\* of the same key.
ExcludedKeySurvivesThroughAlias ==
    /\ fn = "get_filtered_notices"
    /\ Returned
    /\ SharesValue(args, <<"include_organization_keys", "exclude_organization_keys">>)
    /\ \E k \in 1..Len(ret[1]) :
          /\ NoticeRow(ret[1][k]).organization_level_1_key = <<300>>
          /\ NoticeRow(ret[1][k]).organization_key # <<300>>

----------------------------------------------------------------------------
(* The identifiers the loaders place in an Identity Set.                   *)

\* Every identifier of every Identity Set of the collection is a present,
\* non-empty value.
OnlyUsableIdentifiers(ops) == \A k \in 1..Len(ops) : \A id \in ops[k] : Truthy(id)

\* The collections a returned run has loaded.
Loaded ==
    CASE fn \in {"load_csv_opportunities", "load_results_opportunities"} -> <<ret[1]>>
      [] fn = "schema_retrevie" -> <<ret[1].highergov_ops, ret[1].results_ops>>
      [] OTHER -> <<>>

\* C30: every identifier the loaders of both reconciliation scripts
\* (results_compre_Lawrence.py, schema_retrevie.py) place in an Identity Set
\* is a present, non-empty value; a null or an empty string never becomes an
\* identifier.
C30_IdentifiersArePresentAndNonEmpty ==
    Returned => \A k \in 1..Len(Loaded) : OnlyUsableIdentifiers(Loaded[k])

\* The part of C30 the code keeps: the two loaders of
\* results_compre_Lawrence.py add a field only when its value is truthy.
LawrenceLoadersKeepOnlyUsableIdentifiers ==
    (fn \in {"load_csv_opportunities", "load_results_opportunities"} /\ Returned)
        => OnlyUsableIdentifiers(ret[1])

\* A row whose fields are all '' or None was loaded by load_csv_opportunities
\* with an empty Identity Set.
NullAndEmptyFieldsLoadedAsEmptySet ==
    /\ fn = "load_csv_opportunities"
    /\ Returned
    /\ \E k \in 1..Len(args.rows) :
          /\ args.rows[k].items["Solicitation ID"] = PyStr("")
          /\ args.rows[k].items["Solicitation Title"] = PyNone
          /\ ret[1][k] = {}

\* schema_retrevie matched a record whose source_id is null with a record
\* whose solicitation_id is null: both Identity Sets are {None} and nothing
\* is reported unmatched.
NullMatchedNull ==
    /\ fn = "schema_retrevie"
    /\ Returned
    /\ ret[1].highergov_ops = << {PyNone} >>
    /\ ret[1].results_ops = << {PyNone} >>
    /\ ret[1].total_mismatches = 0
====
